---- MODULE Spec2Model ----
(***************************************************************************)
(* A model of the TCO estimation engine of tco-insight-tool:               *)
(*   energy/energy_agent.py      EnergyAgent (price lookup, cache)         *)
(*   ml/tco_components.py        ExtendedTCOCalculator (cost components,   *)
(*                               escalation, aggregation)                  *)
(*   pages/dashboard_simple.py   calculate_simple_tco (discounting)        *)
(*                                                                         *)
(* Numbers.  Python floats are modelled as fixed-point integers:           *)
(*   prices (EUR/MWh and EUR/kWh)  in 1/10000 EUR   (0.28 -> 2800)         *)
(*   factors                       in 1/1000        (0.85 -> 850)          *)
(*   confidences                   in 1/100         (0.85 -> 85)           *)
(*   money                         in whole EUR                            *)
(* Every product is divided by its scale with \div (floor).  A power of a  *)
(* rate (1.05 ** k) is applied by multiplying or dividing k times by the   *)
(* rate, rounding down to the unit each time.                              *)
(***************************************************************************)
EXTENDS Integers, Sequences, FiniteSets, TLC

VARIABLES
    price_cache,    \* EnergyAgent.price_cache: cache key -> (time, price)
    now,            \* datetime.now(), seconds since the start of hour bucket 0
    quote,          \* the outcome of the last get_current_electricity_price call
    lookups,        \* how many price lookups have been made
    stored_by,      \* cache key -> the location whose lookup stored the entry
    asset_in,       \* the asset record as the caller built it
    asset,          \* the caller's asset record (the dict the calculator is given)
    years,          \* the lifetime_years the caller asks for
    tco,            \* the outcome of the last TCO estimation
    calculation_history, \* len(ExtendedTCOCalculator.calculation_history)
    previous,       \* which estimation was called, and what the estimation
                    \* before the last one returned
    esc_call,       \* the arguments of a _calculate_escalated_costs call
    esc_costs,      \* what that call returned
    simple_call,    \* the arguments of a calculate_simple_tco call
    simple_tco,     \* what that call returned
    predictor,      \* the fields of one TCOPredictor
    train_run,      \* where a running train() call stands
    predict_run,    \* where a running predict() call stands, and what it read
    model_file,     \* the file written by save_model
    ml_event,       \* the last call of the predictor that returned or raised
    threads,        \* the concurrent lookups on one EnergyAgent: where each
                    \* stands and what it returned
    rt_call,        \* one add_realtime_energy_component call on its own: what
                    \* it was given and what it returned
    chart,          \* the series of the lifetime cost chart drawn from tco
    page,           \* st.session_state.page: the page the router shows
    session_asset_data  \* st.session_state.asset_data of the wizard

agentVars == <<price_cache, now, quote, lookups, stored_by>>
calcVars == <<asset_in, asset, years, tco, calculation_history, previous>>
escVars == <<esc_call, esc_costs>>
simpleVars == <<simple_call, simple_tco>>
mlVars == <<predictor, train_run, predict_run, model_file, ml_event>>
concVars == <<threads>>
rtVars == <<rt_call>>
pageVars == <<chart>>
wizardVars == <<page, session_asset_data>>
restVars == <<mlVars, concVars, rtVars, pageVars, wizardVars>>
vars == <<agentVars, calcVars, escVars, simpleVars, restVars>>

(***************************************************************************)
(* Bounds of the model.                                                    *)
(***************************************************************************)
MaxTicks == 2           \* half hours the clock advances
MaxLookups == 2         \* price lookups made on one EnergyAgent
MaxAge == 2             \* asset ages 0..MaxAge (years)
MaxYears == 3           \* lifetimes -1..MaxYears (years)
MaxDeviations == 2      \* fields in which an asset differs from the example asset
MaxEscCost == 3         \* escalated annual costs -1..MaxEscCost million EUR
MaxPasses == 2          \* train() calls started on one TCOPredictor
MaxColumns == 2         \* categorical columns in the training data
MaxThreads == 2         \* concurrent lookups on one EnergyAgent

(***************************************************************************)
(* Python values a provider payload can carry as "the price".              *)
(***************************************************************************)
None == [kind |-> "none", v |-> 0]              \* None / JSON null
Num(x) == [kind |-> "num", v |-> x]             \* int or float
Str == [kind |-> "str", v |-> 0]                \* a non-empty string, e.g. "n/a"

\* Python truthiness, as used by "if price:".
Truthy(p) == (p.kind = "str") \/ (p.kind = "num" /\ p.v # 0)

\* price / 1000 (MWh -> kWh) on a number; the quotes of the model are
\* multiples of 1000, so the quotient is exact.
Div1000(x) == x \div 1000

(***************************************************************************)
(* EnergyAgent.__init__ and its tables.                                    *)
(***************************************************************************)
cache_duration == 3600

FallbackCountries == {"Germany", "Denmark", "Italy", "France", "Netherlands",
                      "Belgium", "Austria", "Switzerland", "Poland",
                      "Czech Republic", "Default"}

init_fallback_prices ==
    [c \in FallbackCountries |->
        CASE c = "Germany" -> 2800
          [] c = "Denmark" -> 3200
          [] c = "Italy" -> 2500
          [] c = "France" -> 2400
          [] c = "Netherlands" -> 2600
          [] c = "Belgium" -> 2700
          [] c = "Austria" -> 2600
          [] c = "Switzerland" -> 2200
          [] c = "Poland" -> 1800
          [] c = "Czech Republic" -> 1600
          [] OTHER -> 2500]

\* dict.get(key, default)
Get(d, k, default) == IF k \in DOMAIN d THEN d[k] ELSE default

\* d[k] = v on a dict
Put(d, k, v) == [x \in (DOMAIN d) \cup {k} |-> IF x = k THEN v ELSE d[x]]

EmptyDict == [x \in {} |-> 0]

\* The locations of the model: the agent's table knows all but "Nowhere".
Locations == {"Berlin", "Hamburg", "Kopenhagen", "Shanghai", "Nowhere"}

location_to_country ==
    [l \in {"Duesseldorf (HQ)", "Oelde", "Berlin", "Hamburg", "Muenchen",
            "Kopenhagen", "Mailand", "Lyon", "Shanghai", "Singapur",
            "Chicago", "Sao Paulo"} |->
        CASE l \in {"Duesseldorf (HQ)", "Oelde", "Berlin", "Hamburg", "Muenchen"}
                 -> "Germany"
          [] l = "Kopenhagen" -> "Denmark"
          [] l = "Mailand" -> "Italy"
          [] l = "Lyon" -> "France"
          [] l = "Shanghai" -> "China"
          [] l = "Singapur" -> "Singapore"
          [] l = "Chicago" -> "USA"
          [] OTHER -> "Brazil"]

EpexCountries == {"Germany", "France", "Austria", "Switzerland"}
EntsoeCountries == {"Germany", "Denmark", "Italy", "France", "Netherlands",
                    "Belgium", "Austria", "Poland", "Czech Republic"}
AwattarCountries == {"Germany", "Austria"}

\* strftime('%Y%m%d_%H'): the hour bucket of a time.
HourBucket(t) == t \div 3600

\* timedelta.seconds: the seconds field of a normalised timedelta (0..86399).
TimedeltaSeconds(d) == d % 86400

CacheHit(cache, key, t) ==
    /\ key \in DOMAIN cache
    /\ TimedeltaSeconds(t - cache[key].time) < cache_duration

(***************************************************************************)
(* The answer of an HTTP provider (EPEX via energy-charts, aWATTar):       *)
(*   exception  requests.get or response.json() raised (network error,     *)
(*              timeout, invalid JSON, payload of the wrong shape)         *)
(*   non200     status_code # 200                                          *)
(*   nodata     200, but no 'price' / 'data' key or an empty list          *)
(*   data       200 and a list; price is the element the code reads        *)
(***************************************************************************)
PayloadPrices == {None, Str, Num(0), Num(-5000000), Num(855000)}
AwattarPrices == {None, Str, Num(900000)}

ResponsesWith(prices) ==
    [outcome : {"exception", "non200", "nodata"}, price : {None}]
      \cup [outcome : {"data"}, price : prices]

\* EnergyAgent._get_epex_spot_price
get_epex_spot_price(cache, t, country, resp) ==
    LET cache_key == <<"epex", country, HourBucket(t)>>
    IN  IF CacheHit(cache, cache_key, t)
        THEN [price |-> cache[cache_key].price, source |-> "EPEX SPOT (Cached)",
              cache |-> cache]
        ELSE IF resp.outcome = "data"
        THEN [price |-> resp.price, source |-> "EPEX SPOT (Live)",
              cache |-> Put(cache, cache_key, [time |-> t, price |-> resp.price])]
        ELSE [price |-> None, source |-> "EPEX SPOT (Failed)", cache |-> cache]

simulated_prices ==
    [c \in EntsoeCountries |->
        CASE c = "Germany" -> 855000
          [] c = "Denmark" -> 923000
          [] c = "Italy" -> 789000
          [] c = "France" -> 821000
          [] c = "Netherlands" -> 874000
          [] c = "Belgium" -> 892000
          [] c = "Austria" -> 846000
          [] c = "Poland" -> 653000
          [] OTHER -> 587000]

\* random.uniform(-5, 5), EUR/MWh
Variations == {-50000, 50000}

\* EnergyAgent._get_entsoe_price.  The method makes no network call: it
\* simulates the answer, so on its own it fails for no supported country.
\* stubbed = TRUE is the method replaced by a test double that fails.
get_entsoe_price(cache, t, country, variation, stubbed) ==
    LET cache_key == <<"entsoe", country, HourBucket(t)>>
    IN  IF stubbed
        THEN [price |-> None, source |-> "Entso-E (Failed)", cache |-> cache]
        ELSE IF CacheHit(cache, cache_key, t)
        THEN [price |-> cache[cache_key].price, source |-> "Entso-E (Cached)",
              cache |-> cache]
        ELSE IF country \notin EntsoeCountries
        THEN [price |-> None, source |-> "Entso-E (Country not supported)",
              cache |-> cache]
        ELSE LET current_price == Num(simulated_prices[country] + variation)
             IN  [price |-> current_price, source |-> "Entso-E (Demo)",
                  cache |-> Put(cache, cache_key,
                                [time |-> t, price |-> current_price])]

\* EnergyAgent._get_awattar_price
get_awattar_price(cache, t, country, resp) ==
    LET cache_key == <<"awattar", country, HourBucket(t)>>
    IN  IF CacheHit(cache, cache_key, t)
        THEN [price |-> cache[cache_key].price, source |-> "aWATTar (Cached)",
              cache |-> cache]
        ELSE IF resp.outcome = "data"
        THEN [price |-> resp.price, source |-> "aWATTar (Live)",
              cache |-> Put(cache, cache_key, [time |-> t, price |-> resp.price])]
        ELSE [price |-> None, source |-> "aWATTar (Failed)", cache |-> cache]

(***************************************************************************)
(* What the outside world answers during one lookup.                       *)
(***************************************************************************)
Failed == [outcome |-> "exception", price |-> None]

\* Only the providers consulted for the country are asked for an answer, and
\* an answer that the call cannot read is fixed: the simulated Entso-E price
\* is never falsy, so aWATTar is reached only behind a failing Entso-E double,
\* whose variation is never drawn.
EnvsFor(location) ==
    LET country == Get(location_to_country, location, "Default")
        all == [epex : IF country \in EpexCountries
                       THEN ResponsesWith(PayloadPrices) ELSE {Failed},
                awattar : IF country \in AwattarCountries
                          THEN ResponsesWith(AwattarPrices) ELSE {Failed},
                variation : IF country \in EntsoeCountries
                            THEN Variations ELSE {0},
                entsoe_stub : IF country \in EntsoeCountries
                              THEN BOOLEAN ELSE {FALSE}]
    IN  {e \in all :
            /\ (~e.entsoe_stub /\ country \in EntsoeCountries)
                  => e.awattar = Failed
            /\ e.entsoe_stub => e.variation = 50000}

\* "return price / 1000, source, True": dividing a str raises TypeError.
LiveReturn(r, calls) ==
    IF r.price.kind = "num"
    THEN [status |-> "ok", price |-> Div1000(r.price.v), source |-> r.source,
          is_realtime |-> TRUE, cache |-> r.cache, calls |-> calls]
    ELSE [status |-> "TypeError", price |-> 0, source |-> r.source,
          is_realtime |-> FALSE, cache |-> r.cache, calls |-> calls]

Call(provider, r) == [provider |-> provider, price |-> r.price]

\* A fallback that answers every unlisted country with the German price and
\* reports the quote as live.
FallbackReturn_Mutant(country, cache, calls) ==
    [status |-> "ok",
     price |-> Get(init_fallback_prices, country, init_fallback_prices["Germany"]),
     source |-> "Fallback (Static)", is_realtime |-> (country = "Germany"),
     cache |-> cache, calls |-> calls]

\* The static fallback of step 4.
FallbackReturn(country, cache, calls) ==
    [status |-> "ok",
     price |-> Get(init_fallback_prices, country, init_fallback_prices["Default"]),
     source |-> "Fallback (Static)", is_realtime |-> FALSE,
     cache |-> cache, calls |-> calls]

\* A lookup that asks EPEX and Entso-E whatever the country and whatever
\* EPEX answered, and never asks aWATTar.
get_current_electricity_price_Mutant(cache, t, location, env) ==
    LET country == Get(location_to_country, location, "Default")
        r1 == get_epex_spot_price(cache, t, country, env.epex)
        r2 == get_entsoe_price(r1.cache, t, country, env.variation,
                               env.entsoe_stub)
        k2 == <<Call("epex", r1), Call("entsoe", r2)>>
    IN  IF Truthy(r2.price)
        THEN LiveReturn(r2, k2)
        ELSE FallbackReturn(country, r2.cache, k2)

\* EnergyAgent.get_current_electricity_price
get_current_electricity_price(cache, t, location, env) ==
    LET country == Get(location_to_country, location, "Default")
        r1 == get_epex_spot_price(cache, t, country, env.epex)
        c1 == IF country \in EpexCountries THEN r1.cache ELSE cache
        k1 == IF country \in EpexCountries THEN <<Call("epex", r1)>> ELSE <<>>
        r2 == get_entsoe_price(c1, t, country, env.variation, env.entsoe_stub)
        c2 == IF country \in EntsoeCountries THEN r2.cache ELSE c1
        k2 == IF country \in EntsoeCountries
              THEN Append(k1, Call("entsoe", r2)) ELSE k1
        r3 == get_awattar_price(c2, t, country, env.awattar)
        c3 == IF country \in AwattarCountries THEN r3.cache ELSE c2
        k3 == IF country \in AwattarCountries
              THEN Append(k2, Call("awattar", r3)) ELSE k2
    IN  IF country \in EpexCountries /\ Truthy(r1.price)
        THEN LiveReturn(r1, k1)
        ELSE IF country \in EntsoeCountries /\ Truthy(r2.price)
        THEN LiveReturn(r2, k2)
        ELSE IF country \in AwattarCountries /\ Truthy(r3.price)
        THEN LiveReturn(r3, k3)
        ELSE FallbackReturn(country, c3, k3)

NoQuote == [status |-> "none", location |-> "", price |-> 0, source |-> "",
            is_realtime |-> FALSE, calls |-> <<>>]

(***************************************************************************)
(* ml/tco_components.py: ExtendedTCOCalculator.                            *)
(*                                                                         *)
(* The methods from add_energy_component on are indented under the         *)
(* module-level copy of calculate_extended_tco_with_energy_agent (line     *)
(* 181); they are modelled as the methods of ExtendedTCOCalculator that    *)
(* their self parameter and their callers take them to be.                 *)
(*                                                                         *)
(* An asset record is a dict: a function from the keys it has to values.   *)
(* A lookup table[key] on a missing key raises KeyError: an operator that  *)
(* can raise returns a record whose err field names the exception.         *)
(***************************************************************************)
\* x * f for a factor f in 1/1000
MulF(x, f) == (x * f) \div 1000

RegionalLocations == {"Duesseldorf (HQ)", "Oelde", "Berlin", "Hamburg",
                      "Muenchen", "Kopenhagen", "Mailand", "Lyon", "Shanghai",
                      "Singapur", "Chicago", "Sao Paulo", "Andere"}

\* regional_factors['electricity_prices'], EUR/kWh in 1/10000
electricity_prices ==
    [l \in RegionalLocations |->
        CASE l = "Duesseldorf (HQ)" -> 2800 [] l = "Oelde" -> 2600
          [] l = "Berlin" -> 2700 [] l = "Hamburg" -> 2800
          [] l = "Muenchen" -> 2900 [] l = "Kopenhagen" -> 3200
          [] l = "Mailand" -> 2500 [] l = "Lyon" -> 2400
          [] l = "Shanghai" -> 800 [] l = "Singapur" -> 1800
          [] l = "Chicago" -> 1200 [] l = "Sao Paulo" -> 1500
          [] OTHER -> 2500]

\* regional_factors['water_prices'], EUR/litre in 1/10000
water_prices ==
    [l \in RegionalLocations |->
        CASE l = "Duesseldorf (HQ)" -> 25 [] l = "Oelde" -> 20
          [] l = "Berlin" -> 28 [] l = "Hamburg" -> 24
          [] l = "Muenchen" -> 30 [] l = "Kopenhagen" -> 35
          [] l = "Mailand" -> 20 [] l = "Lyon" -> 22
          [] l = "Shanghai" -> 8 [] l = "Singapur" -> 30
          [] l = "Chicago" -> 15 [] l = "Sao Paulo" -> 10
          [] OTHER -> 20]

\* regional_factors['labor_costs'], EUR/hour
labor_costs ==
    [l \in RegionalLocations |->
        CASE l = "Duesseldorf (HQ)" -> 48 [] l = "Oelde" -> 42
          [] l = "Berlin" -> 45 [] l = "Hamburg" -> 47
          [] l = "Muenchen" -> 50 [] l = "Kopenhagen" -> 58
          [] l = "Mailand" -> 38 [] l = "Lyon" -> 35
          [] l = "Shanghai" -> 12 [] l = "Singapur" -> 25
          [] l = "Chicago" -> 35 [] l = "Sao Paulo" -> 15
          [] OTHER -> 40]

\* regional_factors['regulatory_compliance'], in 1/1000
regulatory_compliance ==
    [l \in RegionalLocations |->
        CASE l \in {"Duesseldorf (HQ)", "Oelde", "Berlin", "Hamburg", "Muenchen"}
                 -> 1200
          [] l = "Kopenhagen" -> 1300
          [] l \in {"Mailand", "Lyon"} -> 1100
          [] l = "Shanghai" -> 800 [] l = "Singapur" -> 1000
          [] l = "Chicago" -> 900 [] l = "Sao Paulo" -> 700
          [] OTHER -> 1000]

UsagePatterns == {"Gelegentlich", "Standard (8h/Tag)", "Extended (12h/Tag)",
                  "24/7 Betrieb"}

\* industry_standards['annual_operating_hours']
annual_operating_hours ==
    [u \in UsagePatterns |->
        CASE u = "Gelegentlich" -> 1000 [] u = "Standard (8h/Tag)" -> 2000
          [] u = "Extended (12h/Tag)" -> 3500 [] OTHER -> 8000]

\* industry_standards['complexity_factors'], in 1/1000
complexity_factors ==
    [d \in {"integrated direct drive", "flat - belt drive", "gear drive"} |->
        CASE d = "integrated direct drive" -> [maintenance |-> 850, personnel |-> 700]
          [] d = "flat - belt drive" -> [maintenance |-> 1000, personnel |-> 1000]
          [] OTHER -> [maintenance |-> 1150, personnel |-> 1300]]

\* industry_standards['quality_factors'], in 1/1000
quality_factors ==
    [q \in {"premium - Level", "standard - Level"} |->
        IF q = "premium - Level"
        THEN [maintenance |-> 1200, reliability |-> 950, personnel |-> 600]
        ELSE [maintenance |-> 1000, reliability |-> 850, personnel |-> 1000]]

\* industry_standards['criticality_factors'][..]['monitoring'], EUR
criticality_monitoring ==
    [c \in {"Niedrig", "Mittel", "Hoch", "Kritisch"} |->
        CASE c = "Niedrig" -> 0 [] c = "Mittel" -> 1000
          [] c = "Hoch" -> 2500 [] OTHER -> 5000]

FoodCategories == {"Citrus", "Wine", "Dairy"}

\* A component that could not be computed: the exception raised instead.
Raised(e) == [err |-> e, annual_cost |-> 0, category |-> "", confidence |-> 0,
              factors |-> EmptyDict]

\* TCOComponent(...)
Component(cost, cat, conf, factors) ==
    [err |-> "", annual_cost |-> cost, category |-> cat, confidence |-> conf,
     factors |-> factors]

\* 'separator' in s.lower() or 'clarification' in s.lower(); 'decanter' in ...
IsSeparator(s) == s \in {"Separator", "Citrus Juice Clarification"}
IsDecanter(s) == s \in {"Decanter"}

\* age_years ** 1.3 in 1/1000, for whole years
AgePow13 == <<0, 1000, 2462, 4171, 6063, 8103>>
Pow13(age) == AgePow13[age + 1]

\* ExtendedTCOCalculator.add_base_maintenance_component
add_base_maintenance_component(asset_data) ==
    LET purchase_price == Get(asset_data, "purchase_price", 100000)
        subcategory == Get(asset_data, "subcategory", "Separator")
        drive_type == Get(asset_data, "drive_type", "flat - belt drive")
        quality_level == Get(asset_data, "quality_level", "standard - Level")
        age_years == Get(asset_data, "age_years", 1)
        base_rate == IF IsSeparator(subcategory) THEN 120
                     ELSE IF IsDecanter(subcategory) THEN 140 ELSE 120
        age_factor == 1000 + age_years * 80 + MulF(Pow13(age_years), 15)
    IN  IF drive_type \notin DOMAIN complexity_factors THEN Raised("KeyError")
        ELSE IF quality_level \notin DOMAIN quality_factors THEN Raised("KeyError")
        ELSE LET complexity_factor == complexity_factors[drive_type].maintenance
                 quality_factor == quality_factors[quality_level].maintenance
                 annual_cost ==
                     MulF(MulF(MulF(MulF(purchase_price, base_rate),
                                    complexity_factor), quality_factor), age_factor)
             IN  Component(annual_cost, "variable", 85,
                           [base_rate |-> base_rate,
                            complexity_factor |-> complexity_factor,
                            quality_factor |-> quality_factor,
                            age_factor |-> age_factor])

\* The load factor table of both energy components, in 1/1000
LoadFactor(usage_pattern) ==
    CASE usage_pattern = "Gelegentlich" -> 600
      [] usage_pattern = "Standard (8h/Tag)" -> 750
      [] usage_pattern = "Extended (12h/Tag)" -> 850
      [] usage_pattern = "24/7 Betrieb" -> 800
      [] OTHER -> 750

\* quantity * price, EUR: (quantity * price) \div 10000, computed in two
\* parts to stay within the integers of the checker
AtPrice(quantity, price) ==
    (quantity \div 10000) * price + ((quantity % 10000) * price) \div 10000

\* add_energy_component
add_energy_component(asset_data) ==
    LET total_power_kw == Get(asset_data, "total_power_consumption",
                              Get(asset_data, "motor_power_kw", 20))
        usage_pattern == Get(asset_data, "usage_pattern", "Standard (8h/Tag)")
        location == Get(asset_data, "location", "Duesseldorf (HQ)")
        efficiency_class == Get(asset_data, "efficiency_class", "Standard")
    IN  IF usage_pattern \notin DOMAIN annual_operating_hours
        THEN Raised("KeyError")
        ELSE IF location \notin DOMAIN electricity_prices THEN Raised("KeyError")
        ELSE LET annual_hours == annual_operating_hours[usage_pattern]
                 electricity_price == electricity_prices[location]
                 efficiency_factor == IF efficiency_class = "Premium"
                                      THEN 950 ELSE 1000
                 load_factor == LoadFactor(usage_pattern)
                 annual_kwh == MulF(MulF(total_power_kw * annual_hours,
                                         load_factor), efficiency_factor)
                 annual_cost == AtPrice(annual_kwh, electricity_price)
             IN  Component(annual_cost, "variable", 90,
                           [electricity_price |-> electricity_price,
                            electricity_price_realtime |-> FALSE,
                            price_source |-> "Regional Standard",
                            annual_kwh |-> annual_kwh])

\* add_water_component; water in 1/10 litre
add_water_component(asset_data) ==
    LET water_consumption_ls == Get(asset_data, "water_consumption_ls", 8)
        water_per_ejection == Get(asset_data, "water_per_ejection", 20)
        usage_pattern == Get(asset_data, "usage_pattern", "Standard (8h/Tag)")
        location == Get(asset_data, "location", "Duesseldorf (HQ)")
        category == Get(asset_data, "category", "Industrial")
    IN  IF usage_pattern \notin DOMAIN annual_operating_hours
        THEN Raised("KeyError")
        ELSE IF location \notin DOMAIN water_prices THEN Raised("KeyError")
        ELSE LET annual_hours == annual_operating_hours[usage_pattern]
                 water_price == water_prices[location]
                 ejections_per_hour ==
                     CASE category = "Citrus" -> 4 [] category = "Wine" -> 2
                       [] category = "Dairy" -> 6 [] OTHER -> 3
                 cip_water_factor == IF category \in FoodCategories
                                     THEN 1500 ELSE 1000
                 hourly_water == MulF(water_consumption_ls
                                        + water_per_ejection * ejections_per_hour,
                                      cip_water_factor)
                 annual_water_liters == hourly_water * annual_hours
                 annual_cost == (annual_water_liters * water_price) \div 100000
             IN  Component(annual_cost, "variable", 80,
                           [water_price |-> water_price,
                            annual_water_liters |-> annual_water_liters])

\* The criticality factor table of personnel and insurance, in 1/1000
CriticalityFactor(criticality) ==
    CASE criticality = "Niedrig" -> 800 [] criticality = "Mittel" -> 1000
      [] criticality = "Hoch" -> 1300 [] criticality = "Kritisch" -> 1600
      [] OTHER -> 1000

\* add_personnel_component; hours in 1/10 hour
add_personnel_component(asset_data) ==
    LET drive_type == Get(asset_data, "drive_type", "flat - belt drive")
        quality_level == Get(asset_data, "quality_level", "standard - Level")
        location == Get(asset_data, "location", "Duesseldorf (HQ)")
        criticality == Get(asset_data, "criticality", "Mittel")
        category == Get(asset_data, "category", "Industrial")
    IN  IF quality_level \notin DOMAIN quality_factors THEN Raised("KeyError")
        ELSE IF drive_type \notin DOMAIN complexity_factors THEN Raised("KeyError")
        ELSE IF location \notin DOMAIN labor_costs THEN Raised("KeyError")
        ELSE LET base_hours == MulF(quality_factors[quality_level].personnel, 4000)
                 complexity_factor == complexity_factors[drive_type].personnel
                 criticality_factor == CriticalityFactor(criticality)
                 food_factor == IF category \in FoodCategories THEN 1400 ELSE 1000
                 hourly_wage == labor_costs[location]
                 total_hours == MulF(MulF(MulF(base_hours, complexity_factor),
                                          criticality_factor), food_factor)
                 annual_cost == (total_hours * hourly_wage) \div 10
             IN  Component(annual_cost, "variable", 75,
                           [criticality_factor |-> criticality_factor,
                            hourly_wage |-> hourly_wage,
                            total_hours |-> total_hours])

\* The usage intensity table of the spare parts component, in 1/1000
SpareUsageFactor(usage_pattern) ==
    CASE usage_pattern = "Gelegentlich" -> 600
      [] usage_pattern = "Standard (8h/Tag)" -> 1000
      [] usage_pattern = "Extended (12h/Tag)" -> 1400
      [] usage_pattern = "24/7 Betrieb" -> 2000
      [] OTHER -> 1000

\* add_spare_parts_component
add_spare_parts_component(asset_data) ==
    LET purchase_price == Get(asset_data, "purchase_price", 100000)
        quality_level == Get(asset_data, "quality_level", "standard - Level")
        usage_pattern == Get(asset_data, "usage_pattern", "Standard (8h/Tag)")
        age_years == Get(asset_data, "age_years", 1)
        manufacturer == Get(asset_data, "manufacturer", "GEA")
        base_spare_parts_rate == 40
        quality_factor == IF quality_level = "premium - Level" THEN 1300 ELSE 1000
        usage_factor == SpareUsageFactor(usage_pattern)
        age_factor == 1000 + age_years * 120
        manufacturer_factor == IF manufacturer \in {"GEA", "Alfa Laval"}
                               THEN 1200 ELSE 1000
        annual_cost ==
            MulF(MulF(MulF(MulF(MulF(purchase_price, base_spare_parts_rate),
                                quality_factor), usage_factor), age_factor),
                 manufacturer_factor)
    IN  Component(annual_cost, "variable", 70,
                  [quality_factor |-> quality_factor, usage_factor |-> usage_factor,
                   age_factor |-> age_factor])

\* The usage table of the cleaning component, in 1/1000
CleaningUsageFactor(usage_pattern) ==
    CASE usage_pattern = "Gelegentlich" -> 700
      [] usage_pattern = "Standard (8h/Tag)" -> 1000
      [] usage_pattern = "Extended (12h/Tag)" -> 1300
      [] usage_pattern = "24/7 Betrieb" -> 1600
      [] OTHER -> 1000

\* add_cleaning_component
add_cleaning_component(asset_data) ==
    LET purchase_price == Get(asset_data, "purchase_price", 100000)
        category == Get(asset_data, "category", "Industrial")
        usage_pattern == Get(asset_data, "usage_pattern", "Standard (8h/Tag)")
        location == Get(asset_data, "location", "Duesseldorf (HQ)")
    IN  IF category \notin FoodCategories
        THEN Component(0, "variable", 100, EmptyDict)
        ELSE IF location \notin DOMAIN regulatory_compliance
        THEN Raised("KeyError")
        ELSE LET base_cleaning_rate ==
                     CASE category = "Citrus" -> 25 [] category = "Wine" -> 20
                       [] category = "Dairy" -> 35 [] OTHER -> 20
                 usage_factor == CleaningUsageFactor(usage_pattern)
                 regional_factor == regulatory_compliance[location]
                 annual_cost == MulF(MulF(MulF(purchase_price, base_cleaning_rate),
                                          usage_factor), regional_factor)
             IN  Component(annual_cost, "variable", 80,
                           [usage_factor |-> usage_factor,
                            regional_factor |-> regional_factor])

\* add_monitoring_component
add_monitoring_component(asset_data) ==
    LET criticality == Get(asset_data, "criticality", "Mittel")
        purchase_price == Get(asset_data, "purchase_price", 100000)
    IN  IF criticality \notin DOMAIN criticality_monitoring
        THEN Raised("KeyError")
        ELSE LET base0 == criticality_monitoring[criticality]
                 base_monitoring_cost == IF purchase_price > 200000
                                         THEN base0 + 1500 ELSE base0
                 software_cost == IF base_monitoring_cost > 0
                                  THEN MulF(base_monitoring_cost, 300) ELSE 0
                 annual_cost == base_monitoring_cost + software_cost
             IN  Component(annual_cost, "fixed", 85,
                           [base_monitoring_cost |-> base_monitoring_cost,
                            software_cost |-> software_cost])

\* add_compliance_component
add_compliance_component(asset_data) ==
    LET category == Get(asset_data, "category", "Industrial")
        location == Get(asset_data, "location", "Duesseldorf (HQ)")
        purchase_price == Get(asset_data, "purchase_price", 100000)
        base_compliance_cost == IF category \in FoodCategories THEN 2500 ELSE 1000
    IN  IF location \notin DOMAIN regulatory_compliance THEN Raised("KeyError")
        ELSE LET regional_factor == regulatory_compliance[location]
                 size_factor == 1000 + MulF((purchase_price * 1000) \div 500000, 500)
                 annual_cost == MulF(MulF(base_compliance_cost, regional_factor),
                                     size_factor)
             IN  Component(annual_cost, "fixed", 75,
                           [regional_factor |-> regional_factor,
                            size_factor |-> size_factor])

\* location.split(' ')[0] if ' ' in location else location
FirstWord(location) ==
    CASE location = "Duesseldorf (HQ)" -> "Duesseldorf"
      [] location = "Sao Paulo" -> "Sao"
      [] OTHER -> location

\* The regional table of the insurance component, keyed by country names
InsuranceRegions ==
    [c \in {"Deutschland", "Daenemark", "Italien", "China", "USA", "Brasilien"} |->
        CASE c = "Deutschland" -> 1000 [] c = "Daenemark" -> 950
          [] c = "Italien" -> 1100 [] c = "China" -> 1300
          [] c = "USA" -> 1200 [] OTHER -> 1400]

\* add_insurance_component
add_insurance_component(asset_data) ==
    LET purchase_price == Get(asset_data, "purchase_price", 100000)
        criticality == Get(asset_data, "criticality", "Mittel")
        location == Get(asset_data, "location", "Duesseldorf (HQ)")
        category == Get(asset_data, "category", "Industrial")
        base_insurance_rate == 8
        criticality_factor == CriticalityFactor(criticality)
        category_factor == IF category \in FoodCategories THEN 1200 ELSE 1000
        regional_factor == Get(InsuranceRegions, FirstWord(location), 1000)
        annual_cost ==
            MulF(MulF(MulF(MulF(purchase_price, base_insurance_rate),
                           criticality_factor), category_factor), regional_factor)
    IN  Component(annual_cost, "fixed", 90,
                  [criticality_factor |-> criticality_factor,
                   category_factor |-> category_factor,
                   regional_factor |-> regional_factor])

\* add_realtime_energy_component.  q is what the agent's
\* get_current_electricity_price answers when it is called (it is called only
\* when an agent is given and the usage pattern is known).  The forecast and
\* the recommendations computed from it are not modelled: the list stored
\* under '_energy_optimization' is the token "recommendations".
add_realtime_energy_component(asset_data, has_agent, q) ==
    LET total_power_kw == Get(asset_data, "total_power_consumption",
                              Get(asset_data, "motor_power_kw", 20))
        usage_pattern == Get(asset_data, "usage_pattern", "Standard (8h/Tag)")
        location == Get(asset_data, "location", "Duesseldorf (HQ)")
        efficiency_class == Get(asset_data, "efficiency_class", "Standard")
        agent_ok == has_agent /\ q.status = "ok"
        \* the three keys stored inside the try block
        stored == IF agent_ok
                  THEN Put(Put(Put(asset_data, "_energy_optimization",
                                   "recommendations"),
                               "_energy_price_realtime", q.is_realtime),
                           "_energy_price_source", q.source)
                  ELSE asset_data
    IN  IF usage_pattern \notin DOMAIN annual_operating_hours
        THEN [comp |-> Raised("KeyError"), asset |-> asset_data, called |-> FALSE]
        ELSE IF ~agent_ok /\ location \notin DOMAIN electricity_prices
        THEN [comp |-> Raised("KeyError"), asset |-> asset_data,
              called |-> has_agent]
        ELSE LET annual_hours == annual_operating_hours[usage_pattern]
                 electricity_price == IF agent_ok THEN q.price
                                      ELSE electricity_prices[location]
                 is_realtime == IF agent_ok THEN q.is_realtime ELSE FALSE
                 price_source == IF agent_ok THEN q.source
                                 ELSE IF has_agent
                                 THEN "Regional Standard (Agent Error)"
                                 ELSE "Regional Standard"
                 efficiency_factor == IF efficiency_class = "Premium"
                                      THEN 950 ELSE 1000
                 load_factor == LoadFactor(usage_pattern)
                 category == Get(asset_data, "category", "Industrial")
                 seasonal_factor == IF category \in {"Citrus", "Wine"}
                                    THEN 1200 ELSE 1000
                 annual_kwh == MulF(MulF(MulF(total_power_kw * annual_hours,
                                              load_factor), efficiency_factor),
                                    seasonal_factor)
                 annual_cost == AtPrice(annual_kwh, electricity_price)
                 confidence == IF is_realtime THEN 95 ELSE 85
             IN  [comp |-> Component(annual_cost, "variable", confidence,
                                     [electricity_price |-> electricity_price,
                                      electricity_price_realtime |-> is_realtime,
                                      price_source |-> price_source,
                                      annual_kwh |-> annual_kwh]),
                  asset |-> Put(Put(stored, "_annual_kwh", annual_kwh),
                                "_last_energy_cost", annual_cost),
                  called |-> has_agent]

(***************************************************************************)
(* Escalation.  cost * rate ** k is computed by compounding k times, each  *)
(* time rounding down to the money unit; it is exact when 100^k divides    *)
(* the cost.                                                               *)
(***************************************************************************)
RECURSIVE Compound(_, _, _, _)
Compound(cost, num, den, k) ==
    IF k <= 0 THEN cost ELSE Compound((cost * num) \div den, num, den, k - 1)

\* An escalation that compounds year y by rate ** y: year 1 escalated.
YearCost_Mutant(cost, num, den, year) == Compound(cost, num, den, year)

\* component.annual_cost * year_factor, year_factor = rate ** (year - 1)
YearCost(cost, num, den, year) == Compound(cost, num, den, year - 1)

\* for year in range(first, lifetime_years + 1): total_cost += ...
RECURSIVE SumYears(_, _, _, _, _)
SumYears(cost, num, den, first, lifetime_years) ==
    IF first > lifetime_years THEN 0
    ELSE YearCost(cost, num, den, first)
           + SumYears(cost, num, den, first + 1, lifetime_years)

\* One entry of _calculate_escalated_costs: 3% inflation, 2% wear.
EscalatedCost(annual_cost, category, lifetime_years) ==
    IF category = "variable"
    THEN SumYears(annual_cost, 100 + 3 + 2, 100, 1, lifetime_years)
    ELSE IF category = "fixed"
    THEN SumYears(annual_cost, 100 + 3, 100, 1, lifetime_years)
    ELSE annual_cost

\* _calculate_escalated_costs
calculate_escalated_costs(components, lifetime_years) ==
    [name \in DOMAIN components |->
        EscalatedCost(components[name].annual_cost, components[name].category,
                      lifetime_years)]

\* sum(f(name) for name in the dict)
RECURSIVE SumOver(_, _)
SumOver(f, names) ==
    IF names = {} THEN 0
    ELSE LET n == CHOOSE x \in names : TRUE
         IN  f[n] + SumOver(f, names \ {n})

\* The components in the order the estimation computes them; the first one
\* that raises ends the estimation.
RECURSIVE FirstError(_)
FirstError(seq) ==
    IF seq = <<>> THEN ""
    ELSE IF Head(seq).err # "" THEN Head(seq).err ELSE FirstError(Tail(seq))

\* result['energy_insights'] of an estimation that asked no agent:
\* {'energy_agent_used': False}; the other keys are absent (has = FALSE).
NoInsights ==
    [has |-> FALSE, energy_agent_used |-> FALSE, current_energy_cost |-> 0,
     recommendations |-> "[]", energy_efficiency_rating |-> "Standard",
     smart_grid_ready |-> FALSE]

\* get_energy_optimization_insights, followed by
\* energy_insights['energy_agent_used'] = True
get_energy_optimization_insights(asset_data) ==
    LET annual_kwh == Get(asset_data, "_annual_kwh", 0)
        purchase_price == Get(asset_data, "purchase_price", 1)
        power_kw == Get(asset_data, "total_power_consumption", 0)
    IN  [has |-> TRUE, energy_agent_used |-> TRUE,
         current_energy_cost |-> Get(asset_data, "_last_energy_cost", 0),
         recommendations |-> Get(asset_data, "_energy_optimization", "[]"),
         energy_efficiency_rating |->
            IF annual_kwh > 0 /\ purchase_price > 0
            THEN IF 2 * annual_kwh < purchase_price THEN "Excellent"
                 ELSE IF annual_kwh < purchase_price THEN "Good"
                 ELSE IF annual_kwh < 2 * purchase_price THEN "Average"
                 ELSE "Poor"
            ELSE "Standard",
         smart_grid_ready |-> power_kw > 50]

NoResult ==
    [status |-> "none", model_version |-> "", agent |-> FALSE,
     energy_insights |-> NoInsights,
     components |-> EmptyDict,
     escalated_costs |-> EmptyDict,
     total_annual_operating |-> 0, acquisition_costs |-> 0,
     operating_costs |-> 0, disposal_costs |-> 0, total_tco |-> 0,
     tco_multiple |-> 0, purchase_price |-> 0, lifetime_years |-> 0,
     overall_confidence |-> 0, energy_agent_bonus |-> 0]

RaisedResult(e, agent, lifetime_years) ==
    [NoResult EXCEPT !.status = e, !.agent = agent,
                     !.lifetime_years = lifetime_years]

\* The confidence of calculate_extended_tco, in 1/100
WeightedConfidence(components, total_annual_operating) ==
    LET total_confidence ==
            SumOver([n \in DOMAIN components |->
                        components[n].confidence * components[n].annual_cost],
                    DOMAIN components)
    IN  IF total_annual_operating > 0
        THEN total_confidence \div total_annual_operating
        ELSE 80

Min(a, b) == IF a <= b THEN a ELSE b

\* The confidence of calculate_extended_tco_with_energy_agent, in 1/100
EnhancedConfidence(components, total_annual_operating, has_agent) ==
    LET energy_confidence_bonus == IF has_agent THEN 10 ELSE 0
        total_confidence ==
            SumOver([n \in DOMAIN components |->
                        components[n].confidence * components[n].annual_cost],
                    DOMAIN components)
        avg_confidence == IF total_annual_operating > 0
                          THEN total_confidence \div total_annual_operating
                                 + energy_confidence_bonus
                          ELSE 80
    IN  [overall |-> Min(avg_confidence, 100), bonus |-> energy_confidence_bonus]

\* The one-time costs and the cost summary shared by both estimations;
\* tco_multiple in 1/100.
Aggregate(asset_data, components, lifetime_years, model_version, agent, conf, bonus) ==
    LET total_annual_operating ==
            SumOver([n \in DOMAIN components |-> components[n].annual_cost],
                    DOMAIN components)
        escalated_costs == calculate_escalated_costs(components, lifetime_years)
        purchase_price == Get(asset_data, "purchase_price", 100000)
        installation_cost == MulF(purchase_price, 50)
        training_cost == MulF(purchase_price, 20)
        disposal_cost == MulF(purchase_price, 30)
        residual_value == MulF(purchase_price, 150)
        total_acquisition == purchase_price + installation_cost + training_cost
        total_operating == SumOver(escalated_costs, DOMAIN escalated_costs)
        total_disposal == disposal_cost - residual_value
        total_tco == total_acquisition + total_operating + total_disposal
    IN  IF lifetime_years = 0
        THEN RaisedResult("ZeroDivisionError", agent, lifetime_years)
        ELSE [status |-> "ok", model_version |-> model_version, agent |-> agent,
              energy_insights |-> NoInsights,
              components |-> components,
              escalated_costs |-> escalated_costs,
              total_annual_operating |-> total_annual_operating,
              acquisition_costs |-> total_acquisition,
              operating_costs |-> total_operating,
              disposal_costs |-> total_disposal,
              total_tco |-> total_tco,
              tco_multiple |-> IF purchase_price > 0
                               THEN (total_tco * 100) \div purchase_price ELSE 0,
              purchase_price |-> purchase_price,
              lifetime_years |-> lifetime_years,
              overall_confidence |-> conf, energy_agent_bonus |-> bonus]

\* The element of a one-element set.  {F(x) : x \in {v}} is {F(v)} with v
\* computed once, as a Python local variable is.
The(S) == CHOOSE y \in S : TRUE

TotalAnnual(components) ==
    SumOver([n \in DOMAIN components |-> components[n].annual_cost],
            DOMAIN components)

\* The body of calculate_extended_tco, given the components.
StandardResult(asset_data, lifetime_years, components) ==
    LET err == FirstError(<<components.maintenance, components.energy,
                            components.water, components.personnel,
                            components.spare_parts, components.cleaning,
                            components.monitoring, components.compliance,
                            components.insurance>>)
        total_annual_operating == TotalAnnual(components)
    IN  IF err # "" THEN RaisedResult(err, FALSE, lifetime_years)
        ELSE Aggregate(asset_data, components, lifetime_years, "2.0_extended",
                       FALSE,
                       WeightedConfidence(components, total_annual_operating), 0)

\* calculate_extended_tco
calculate_extended_tco(asset_data, lifetime_years) ==
    The({StandardResult(asset_data, lifetime_years, components) :
            components \in
              {[maintenance |-> add_base_maintenance_component(asset_data),
                energy |-> add_energy_component(asset_data),
                water |-> add_water_component(asset_data),
                personnel |-> add_personnel_component(asset_data),
                spare_parts |-> add_spare_parts_component(asset_data),
                cleaning |-> add_cleaning_component(asset_data),
                monitoring |-> add_monitoring_component(asset_data),
                compliance |-> add_compliance_component(asset_data),
                insurance |-> add_insurance_component(asset_data)]}})

\* The body of calculate_extended_tco_with_energy_agent, given the
\* components and what add_realtime_energy_component returned (rt).
EnhancedResult(asset_data, lifetime_years, has_agent, rt, components) ==
    LET early == FirstError(<<components.maintenance, components.water,
                              components.personnel, components.spare_parts,
                              components.cleaning, components.monitoring,
                              components.compliance, components.insurance>>)
        asset_after == IF has_agent THEN rt.asset ELSE asset_data
        total_annual_operating == TotalAnnual(components)
        conf == EnhancedConfidence(components, total_annual_operating, has_agent)
    IN  IF early # ""
        THEN [result |-> RaisedResult(early, has_agent, lifetime_years),
              asset |-> asset_data, called |-> FALSE]
        ELSE IF components.energy.err # ""
        THEN [result |-> RaisedResult(components.energy.err, has_agent,
                                      lifetime_years),
              asset |-> asset_data, called |-> has_agent /\ rt.called]
        ELSE LET result == Aggregate(asset_data, components, lifetime_years,
                                     "2.1_energy_enhanced", has_agent,
                                     conf.overall, conf.bonus)
             IN  [result |-> IF has_agent /\ result.status = "ok"
                             THEN [result EXCEPT !.energy_insights =
                                     get_energy_optimization_insights(asset_after)]
                             ELSE result,
                  asset |-> asset_after, called |-> has_agent]

\* calculate_extended_tco_with_energy_agent.  Returns the result, the asset
\* record as the call leaves it, and whether the agent was called.
calculate_extended_tco_with_energy_agent(asset_data, lifetime_years, has_agent, q) ==
    The({EnhancedResult(asset_data, lifetime_years, has_agent, rt,
            [maintenance |-> add_base_maintenance_component(asset_data),
             energy |-> IF has_agent THEN rt.comp
                        ELSE add_energy_component(asset_data),
             water |-> add_water_component(asset_data),
             personnel |-> add_personnel_component(asset_data),
             spare_parts |-> add_spare_parts_component(asset_data),
             cleaning |-> add_cleaning_component(asset_data),
             monitoring |-> add_monitoring_component(asset_data),
             compliance |-> add_compliance_component(asset_data),
             insurance |-> add_insurance_component(asset_data)]) :
          rt \in {add_realtime_energy_component(asset_data, TRUE, q)}})

(***************************************************************************)
(* pages/dashboard_simple.py: the simple TCO of the machine comparison.    *)
(* A row is a dict from column names to cells; a numeric cell is           *)
(* [int |-> whether it is a Python int, v |-> the number].                 *)
(***************************************************************************)
Standorte == {"Duesseldorf (HQ)", "Kopenhagen", "Mailand", "Lyon", "Berlin",
              "Shanghai", "Chicago"}

\* STANDORTE[..]['strom']: the marker 'ENERGY_AGENT' (a string) or EUR/kWh
STANDORTE_strom ==
    [l \in Standorte |->
        CASE l = "Shanghai" -> Num(800) [] l = "Chicago" -> Num(1200)
          [] OTHER -> Str]

\* STANDORTE[..]['wasser'], EUR/litre in 1/10000
STANDORTE_wasser ==
    [l \in Standorte |->
        CASE l = "Duesseldorf (HQ)" -> 25 [] l = "Kopenhagen" -> 35
          [] l = "Mailand" -> 20 [] l = "Lyon" -> 22 [] l = "Berlin" -> 28
          [] l = "Shanghai" -> 8 [] OTHER -> 15]

\* The fallback table inside get_electricity_price
simple_fallback_prices ==
    [l \in {"Duesseldorf (HQ)", "Kopenhagen", "Mailand", "Lyon", "Berlin"} |->
        CASE l = "Duesseldorf (HQ)" -> 2800 [] l = "Kopenhagen" -> 3200
          [] l = "Mailand" -> 2500 [] l = "Lyon" -> 2400 [] OTHER -> 2700]

\* get_electricity_price(standort, energy_agent).  q is the answer of the
\* agent's lookup, made only when called is TRUE.
get_electricity_price(standort, has_agent, q) ==
    LET strom == Get(STANDORTE_strom, standort, STANDORTE_strom["Duesseldorf (HQ)"])
    IN  IF strom = Str /\ has_agent
        THEN IF q.status = "ok"
             THEN [price |-> Num(q.price), source |-> "Live: " \o q.source,
                   is_realtime |-> q.is_realtime, called |-> TRUE]
             ELSE [price |-> Num(Get(simple_fallback_prices, standort, 2800)),
                   source |-> "Fallback", is_realtime |-> FALSE, called |-> TRUE]
        ELSE [price |-> strom, source |-> "Fest", is_realtime |-> FALSE,
              called |-> FALSE]

\* int(re.findall(r'\d+', str(model_name))[0]) for the model names of the
\* model; 0 stands for a name without digits
FirstNumber(model_name) ==
    CASE model_name = "GFA 200" -> 200
      [] model_name = "CSE 1500" -> 1500
      [] OTHER -> 0

\* estimate_dmr_from_model; a missing cell is NaN
estimate_dmr_from_model(rowd) ==
    IF "SEP_SQLLangtyp" \notin DOMAIN rowd THEN 500
    ELSE LET first_number == FirstNumber(rowd["SEP_SQLLangtyp"])
         IN  IF first_number > 0 /\ first_number < 1000 THEN first_number
             ELSE 500

\* estimate_dmr_from_capacity
estimate_dmr_from_capacity(rowd) ==
    IF "SEP_CapacityMaxInp" \notin DOMAIN rowd THEN 500
    ELSE LET capacity_max == rowd["SEP_CapacityMaxInp"]
         IN  IF capacity_max < 5000 THEN 300
             ELSE IF capacity_max < 20000 THEN 500 ELSE 800

\* a service cost with two classes only: the large machines cost as the
\* medium ones
calculate_service_cost_Mutant(dmr) ==
    IF dmr < 400 THEN 10000 ELSE 15000

\* calculate_service_cost
calculate_service_cost(dmr) ==
    IF dmr < 400 THEN 10000 ELSE IF dmr <= 700 THEN 15000 ELSE 20000

Max(a, b) == IF a >= b THEN a ELSE b

\* x / (1 + discount_rate) ** k, discount_rate = 0.05
RECURSIVE DivideByRate(_, _)
DivideByRate(x, k) ==
    IF k <= 0 THEN x ELSE DivideByRate((x * 100) \div (100 + 5), k - 1)

\* A loop that discounts year y by 1.05 ** (y - 1): year 1 at face value.
Discounted_Mutant(yearly_operating, year) ==
    DivideByRate(yearly_operating, year - 1)

\* discount_factor = (1 + discount_rate) ** year
\* discounted_yearly = yearly_operating / discount_factor
Discounted(yearly_operating, year) == DivideByRate(yearly_operating, year)

\* for year in range(first, nutzungsdauer_jahre + 1):
\*     total_discounted_operating += discounted_yearly
RECURSIVE SumDiscounted(_, _, _)
SumDiscounted(yearly_operating, first, nutzungsdauer_jahre) ==
    IF first > nutzungsdauer_jahre THEN 0
    ELSE Discounted(yearly_operating, first)
           + SumDiscounted(yearly_operating, first + 1, nutzungsdauer_jahre)

NoSimpleResult ==
    [status |-> "none", purchase_price |-> 0, annual_service_cost |-> 0,
     annual_energy_cost |-> None, annual_water_cost |-> 0, total_tco |-> 0,
     undiscounted_tco |-> 0, total_discounted_operating |-> 0,
     total_undiscounted_operating |-> 0, dmr |-> 0,
     service_cost_per_service |-> 0, service_zyklen_gesamt |-> 0,
     electricity_price |-> None, price_source |-> "", is_realtime |-> FALSE,
     nutzungsdauer_jahre |-> 0]

SimpleRaised(e) == [NoSimpleResult EXCEPT !.status = e]

\* calculate_simple_tco.  Water in 1/10 litre.  An int times the marker
\* string is a string (repetition), a float times it raises TypeError, and
\* so does adding a number to the string in the loop over the years.
calculate_simple_tco(rowd, standort, betriebsstunden_woche, nutzungsdauer_jahre, has_agent, q) ==
    LET purchase_price == Get(rowd, "Listprice", 0)
        dmr0 == estimate_dmr_from_model(rowd)
        dmr == IF dmr0 = 500 THEN estimate_dmr_from_capacity(rowd) ELSE dmr0
        service_cost_per_service == calculate_service_cost(dmr)
        gesamt_betriebsstunden == betriebsstunden_woche * 52 * nutzungsdauer_jahre
        service_zyklen_stunden == Max(1, gesamt_betriebsstunden \div 8000)
        service_zyklen_zeit == Max(1, nutzungsdauer_jahre \div 2)
        service_zyklen_gesamt == Max(service_zyklen_stunden, service_zyklen_zeit)
        power == Get(rowd, "power consumption TOTAL [kW]", [int |-> TRUE, v |-> 20])
        ep == get_electricity_price(standort, has_agent, q)
        annual_energy_kwh == power.v * betriebsstunden_woche * 52
        annual_energy_cost ==
            IF ep.price.kind = "num"
            THEN Num(AtPrice(annual_energy_kwh, ep.price.v)) ELSE Str
        water_consumption == Get(rowd, "SEP_SQLOpWaterls", 10)
        annual_water_liters ==
            water_consumption * 60 * (betriebsstunden_woche * 60) * 52
        annual_service_cost ==
            (service_cost_per_service * service_zyklen_gesamt)
                \div nutzungsdauer_jahre
        raised(e) == [result |-> SimpleRaised(e), called |-> ep.called]
    IN  IF ep.price.kind = "str" /\ ~power.int THEN raised("TypeError")
        ELSE IF standort \notin DOMAIN STANDORTE_wasser THEN raised("KeyError")
        ELSE IF nutzungsdauer_jahre = 0 THEN raised("ZeroDivisionError")
        ELSE IF ep.price.kind = "str" /\ nutzungsdauer_jahre >= 1
        THEN raised("TypeError")
        ELSE LET water_price == STANDORTE_wasser[standort]
                 annual_water_cost ==
                     AtPrice(annual_water_liters, water_price) \div 10
                 yearly_operating ==
                     annual_energy_cost.v + annual_water_cost + annual_service_cost
                 total_undiscounted_operating ==
                     IF nutzungsdauer_jahre >= 1
                     THEN nutzungsdauer_jahre * yearly_operating ELSE 0
                 total_discounted_operating ==
                     SumDiscounted(yearly_operating, 1, nutzungsdauer_jahre)
             IN  [result |->
                    [status |-> "ok", purchase_price |-> purchase_price,
                     annual_service_cost |-> annual_service_cost,
                     annual_energy_cost |-> annual_energy_cost,
                     annual_water_cost |-> annual_water_cost,
                     total_tco |-> purchase_price + total_discounted_operating,
                     undiscounted_tco |->
                         purchase_price + total_undiscounted_operating,
                     total_discounted_operating |-> total_discounted_operating,
                     total_undiscounted_operating |->
                         total_undiscounted_operating,
                     dmr |-> dmr,
                     service_cost_per_service |-> service_cost_per_service,
                     service_zyklen_gesamt |-> service_zyklen_gesamt,
                     electricity_price |-> ep.price,
                     price_source |-> ep.source, is_realtime |-> ep.is_realtime,
                     nutzungsdauer_jahre |-> nutzungsdauer_jahre],
                  called |-> ep.called]

(***************************************************************************)
(* pages/step3_erweitert.py: the chart of the costs over the lifetime.     *)
(***************************************************************************)
\* annual_operating * (1.05) ** year
ChartYearCost(annual_operating, year) == Compound(annual_operating, 105, 100, year)

\* The sum of the year costs of the years first..last
RECURSIVE SumChartYears(_, _, _)
SumChartYears(annual_operating, first, last) ==
    IF first > last THEN 0
    ELSE ChartYearCost(annual_operating, first)
           + SumChartYears(annual_operating, first + 1, last)

\* create_lifetime_cost_chart(tco_result): the two series it plots, entry 1
\* for year 0 (the acquisition), entry y + 1 for year y
create_lifetime_cost_chart(tco_result) ==
    LET lifetime_years == tco_result.lifetime_years
        annual_operating == tco_result.total_annual_operating
        acquisition == tco_result.acquisition_costs
        entries == 1..(Max(lifetime_years, 0) + 1)
    IN  [annual_costs |->
            [i \in entries |->
                IF i = 1 THEN acquisition
                ELSE ChartYearCost(annual_operating, i - 1)],
         cumulative_costs |->
            [i \in entries |->
                acquisition + SumChartYears(annual_operating, 1, i - 1)]]

NoChart == [shown |-> FALSE, annual_costs |-> <<>>, cumulative_costs |-> <<>>]

\* app.py 284-287: a new session starts on the dashboard with no asset data
InitPages == chart = NoChart /\ page = "dashboard" /\ session_asset_data = <<>>

(***************************************************************************)
(* The energy agent as a state machine.                                    *)
(***************************************************************************)
(***************************************************************************)
(* ml/tco_predictor.py: TCOPredictor.  A training pass is numbered; a part *)
(* of the predictor (model, an encoder, scaler, training_stats) is the     *)
(* number of the pass that made it, 0 for the part as __init__ leaves it.  *)
(* train() and predict() are sequences of statements that other calls on   *)
(* the same predictor may interleave with.  self.feature_names holds the   *)
(* names of the categorical columns only: the numerical and the derived    *)
(* features are the same in every call of the model.                       *)
(***************************************************************************)
categorical_features ==
    <<"category", "subcategory", "manufacturer", "location", "usage_pattern",
      "criticality">>

\* "if feature in df_work.columns": the categorical features that are
\* columns of the data, the first MaxColumns of the list.
Columns == SubSeq(categorical_features, 1, MaxColumns)

CategoricalNames == {Columns[i] : i \in DOMAIN Columns}

\* self.model: None (pass 0), a RandomForestRegressor constructed in a pass,
\* fitted or not yet.
NoModel == [pass |-> 0, fitted |-> FALSE]

\* TCOPredictor.__init__
NewPredictor ==
    [model |-> NoModel,
     feature_encoders |-> [f \in CategoricalNames |-> 0],
     scaler |-> 0,
     feature_names |-> <<>>,
     model_trained |-> FALSE,
     training_stats |-> 0]

Idle == [pc |-> "idle", pass |-> 0, i |-> 0]

\* cols: how many of the categorical columns the record of a running
\* predict() has
NoRead == [pc |-> "idle", cols |-> 0]

\* The asset records given to predict(): one with every categorical column
\* of the training data, and one that lacks the last of them.
PredictRecords == {Columns, SubSeq(Columns, 1, Len(Columns) - 1)}

NoFile == [exists |-> FALSE, model |-> NoModel,
           feature_encoders |-> [f \in CategoricalNames |-> 0], scaler |-> 0,
           feature_names |-> <<>>, training_stats |-> 0]

NoEvent == [op |-> "none", status |-> ""]

Event(op, status) == [op |-> op, status |-> status]

InitPredictor ==
    /\ predictor = NewPredictor
    /\ train_run = Idle
    /\ predict_run = NoRead
    /\ model_file = NoFile
    /\ ml_event = NoEvent

(***************************************************************************)
(* Concurrent lookups on one EnergyAgent (request threads of the           *)
(* application).  A thread runs get_current_electricity_price(location);   *)
(* between its cache check and the arrival of the provider's answer other  *)
(* threads run and time passes.  CPython executes the membership test, the *)
(* read and the assignment of a dict entry one at a time, so each is one   *)
(* step on the shared cache.                                               *)
(***************************************************************************)
Threads == 1..MaxThreads

ConcLocations == {"Berlin", "Kopenhagen"}

\* What a provider answers a concurrent lookup with: nothing, a malformed
\* price, or one of two prices (0 is falsy: stored, but not returned).
ConcPrices(country) ==
    [epex |-> {None, Str, Num(0), Num(855000)},
     entsoe |-> {None} \cup {Num(simulated_prices[country] + v) : v \in Variations},
     awattar |-> {None, Num(900000)}]

\* The providers get_current_electricity_price consults for a country, in
\* the order of its steps 1 to 3.
ProvidersOf(country) ==
    SelectSeq(<<"epex", "entsoe", "awattar">>,
              LAMBDA x : \/ x = "epex" /\ country \in EpexCountries
                         \/ x = "entsoe" /\ country \in EntsoeCountries
                         \/ x = "awattar" /\ country \in AwattarCountries)

CachedSources ==
    [epex |-> "EPEX SPOT (Cached)", entsoe |-> "Entso-E (Cached)",
     awattar |-> "aWATTar (Cached)"]

LiveSources ==
    [epex |-> "EPEX SPOT (Live)", entsoe |-> "Entso-E (Demo)",
     awattar |-> "aWATTar (Live)"]

NoOutcome == [status |-> "none", price |-> 0, source |-> "", is_realtime |-> FALSE]

NoThread == [pc |-> "idle", location |-> "", k |-> 0, key |-> <<>>,
             out |-> NoOutcome]

\* self.price_cache[cache_key] = (datetime.now(), current_price)
store(cache, key, t, price) == Put(cache, key, [time |-> t, price |-> price])

InitThreads == threads = [th \in Threads |-> NoThread]

\* No add_realtime_energy_component call has been made on its own
NoRealtime == [status |-> "none", location |-> "", agent |-> "",
               answer |-> "", out |-> Raised("")]

InitRealtime == rt_call = NoRealtime

InitRest == InitPredictor /\ InitThreads /\ InitRealtime /\ InitPages

\* The guard of predict: a check that lets an untrained predictor through.
predict_check_Mutant(p) == ""

\* The guard of predict: "if not self.model_trained: raise ValueError"
predict_check(p) == IF ~p.model_trained THEN "ValueError" ELSE ""

\* The guard of save_model
save_check(p) == IF ~p.model_trained THEN "ValueError" ELSE ""

\* Who stored what: the entries a lookup for location wrote (cache is the
\* cache before the lookup, after the cache after it) are its own.
Stamp(by, cache, after, location) ==
    [k \in DOMAIN after |->
        IF k \in DOMAIN cache /\ cache[k] = after[k] THEN by[k] ELSE location]

InitAgent ==
    /\ price_cache = EmptyDict
    /\ now = 0
    /\ quote = NoQuote
    /\ lookups = 0
    /\ stored_by = EmptyDict

\* The asset of the module's self test (and of the specification's example).
ExampleAsset ==
    [asset_name |-> "SEP-GFA-001", category |-> "Citrus",
     subcategory |-> "Citrus Juice Clarification", manufacturer |-> "GEA",
     model |-> "GFA 200-30-820", purchase_price |-> 344261,
     motor_power_kw |-> 55, total_power_consumption |-> 44,
     water_consumption_ls |-> 12, water_per_ejection |-> 110,
     drive_type |-> "integrated direct drive",
     quality_level |-> "premium - Level", age_years |-> 1,
     usage_pattern |-> "Extended (12h/Tag)", location |-> "Duesseldorf (HQ)",
     criticality |-> "Hoch"]

\* del d[k]
Without(d, k) == [x \in (DOMAIN d) \ {k} |-> d[x]]

\* The values each field takes in the model: the example's, other valid ones,
\* and ones outside the factor tables.  has = FALSE is a record without a
\* purchase price.
PriceOptions == {[has |-> FALSE, v |-> 0]}
                  \cup [has : {TRUE}, v : {-1000, 0, 1000, 344261}]
TcoLocations == {"Duesseldorf (HQ)", "Shanghai", "Nowhere"}
TcoUsages == {"Extended (12h/Tag)", "24/7 Betrieb", "Schichtbetrieb"}
TcoCriticalities == {"Hoch", "Niedrig", "Unbekannt"}
TcoDrives == {"integrated direct drive", "hydraulic drive"}
TcoQualities == {"premium - Level", "economy - Level"}
TcoPowers == {44, 0, -140}
TcoCategories == {"Citrus", "Industrial"}
Ages == 0..MaxAge
Lifetimes == -1..MaxYears

AssetChoices ==
    [price : PriceOptions, location : TcoLocations, usage : TcoUsages,
     criticality : TcoCriticalities, drive : TcoDrives, quality : TcoQualities,
     power : TcoPowers, category : TcoCategories, age : Ages]

B2N(b) == IF b THEN 1 ELSE 0

Deviations(c) ==
    B2N(c.price # [has |-> TRUE, v |-> ExampleAsset.purchase_price])
      + B2N(c.location # ExampleAsset.location)
      + B2N(c.usage # ExampleAsset.usage_pattern)
      + B2N(c.criticality # ExampleAsset.criticality)
      + B2N(c.drive # ExampleAsset.drive_type)
      + B2N(c.quality # ExampleAsset.quality_level)
      + B2N(c.power # ExampleAsset.total_power_consumption)
      + B2N(c.category # ExampleAsset.category)
      + B2N(c.age # ExampleAsset.age_years)

MakeAsset(c) ==
    LET a == [ExampleAsset EXCEPT
                !.purchase_price = c.price.v, !.location = c.location,
                !.usage_pattern = c.usage, !.criticality = c.criticality,
                !.drive_type = c.drive, !.quality_level = c.quality,
                !.total_power_consumption = c.power, !.category = c.category,
                !.subcategory = IF c.category = "Citrus"
                                THEN "Citrus Juice Clarification" ELSE "Decanter",
                !.age_years = c.age]
    IN  IF c.price.has THEN a ELSE Without(a, "purchase_price")

Assets == {MakeAsset(c) : c \in {x \in AssetChoices : Deviations(x) <= MaxDeviations}}

NoPrevious == [call |-> "none", result |-> NoResult, repeated |-> FALSE]

InitCalc ==
    /\ asset_in = ExampleAsset
    /\ asset = ExampleAsset
    /\ years = 15
    /\ tco = NoResult
    /\ calculation_history = 0
    /\ previous = NoPrevious

NoCosts == [done |-> FALSE, costs |-> EmptyDict]

InitEsc ==
    /\ esc_call = [components |-> EmptyDict, lifetime_years |-> 15]
    /\ esc_costs = NoCosts

InitSimpleCall ==
    /\ simple_call = [row |-> EmptyDict, standort |-> "Duesseldorf (HQ)",
                      betriebsstunden_woche |-> 40, nutzungsdauer_jahre |-> 15,
                      energy_agent |-> FALSE]
    /\ simple_tco = NoSimpleResult

(***************************************************************************)
(* One TCO estimation per behaviour: the caller builds an asset record and *)
(* a horizon (InitTCO) and calls one of the estimations.                   *)
(***************************************************************************)
InitTCO ==
    /\ InitAgent
    /\ InitRest
    /\ InitEsc
    /\ InitSimpleCall
    /\ asset_in \in Assets
    /\ asset = asset_in
    /\ years \in Lifetimes
    /\ tco = NoResult
    /\ calculation_history = 0
    /\ previous = NoPrevious

\* calculator.calculate_extended_tco(asset_data, lifetime_years)
EstimateStandard ==
    /\ tco.status = "none"
    /\ LET r == calculate_extended_tco(asset, years)
       IN  /\ tco' = r
           /\ calculation_history' =
                 IF r.status = "ok" THEN calculation_history + 1
                 ELSE calculation_history
    /\ previous' = [previous EXCEPT !.call = "standard"]
    /\ UNCHANGED <<asset_in, asset, years>>
    /\ UNCHANGED <<agentVars, escVars, simpleVars>>
    /\ UNCHANGED restVars

\* calculator.calculate_extended_tco_with_energy_agent(asset_data,
\* years, energy_agent=None)
EstimateWithoutAgent ==
    /\ tco.status = "none"
    /\ LET r == calculate_extended_tco_with_energy_agent(
                     asset, years, FALSE, NoQuote)
       IN  /\ tco' = r.result
           /\ asset' = r.asset
    /\ previous' = [previous EXCEPT !.call = "without_agent"]
    /\ UNCHANGED <<asset_in, years, calculation_history>>
    /\ UNCHANGED <<agentVars, escVars, simpleVars>>
    /\ UNCHANGED restVars

\* calculator.calculate_extended_tco_with_energy_agent(asset_data,
\* years, energy_agent) with the EnergyAgent of this model
EstimateWithAgent ==
    /\ tco.status = "none"
    /\ LET location == Get(asset, "location", "Duesseldorf (HQ)")
       IN  \E env \in EnvsFor(location) :
            LET q == get_current_electricity_price(price_cache, now, location, env)
                r == calculate_extended_tco_with_energy_agent(
                         asset, years, TRUE, q)
            IN  /\ tco' = r.result
                /\ asset' = r.asset
                /\ price_cache' = IF r.called THEN q.cache ELSE price_cache
                /\ stored_by' = IF r.called
                                THEN Stamp(stored_by, price_cache, q.cache,
                                           location)
                                ELSE stored_by
                /\ quote' = IF r.called
                            THEN [status |-> q.status, location |-> location,
                                  price |-> q.price, source |-> q.source,
                                  is_realtime |-> q.is_realtime,
                                  calls |-> q.calls]
                            ELSE quote
                /\ lookups' = IF r.called THEN lookups + 1 ELSE lookups
                /\ previous' = [previous EXCEPT !.call = "with_agent"]
    /\ UNCHANGED <<asset_in, years, calculation_history, now>>
    /\ UNCHANGED <<escVars, simpleVars>>
    /\ UNCHANGED restVars

NextTCO == EstimateStandard \/ EstimateWithoutAgent \/ EstimateWithAgent

SpecTCO == InitTCO /\ [][NextTCO]_vars

(***************************************************************************)
(* Two consecutive estimations: the caller repeats the call that was just  *)
(* made, on the same calculator, with the same asset dict, the same        *)
(* horizon and the same agent, at the same time and with every provider    *)
(* answering as before.                                                    *)
(***************************************************************************)
\* The providers are deterministic: each provider the first call consulted
\* (on the empty cache of a new agent) answers the second call the same.
SameAnswers(location, env) ==
    \/ quote.status = "none"
    \/ get_current_electricity_price(EmptyDict, now, location, env).calls
          = quote.calls

\* All environments with the same answers give the same lookup.
SameEnv(location) ==
    CHOOSE env \in EnvsFor(location) : SameAnswers(location, env)

\* the same call as the one before, e.g.
\* calculator.calculate_extended_tco_with_energy_agent(asset_data, years,
\* energy_agent) a second time
EstimateAgain ==
    /\ tco.status # "none"
    /\ ~previous.repeated
    /\ previous' = [previous EXCEPT !.result = tco, !.repeated = TRUE]
    /\ \E env \in {SameEnv(Get(asset, "location", "Duesseldorf (HQ)"))} :
       LET location == Get(asset, "location", "Duesseldorf (HQ)")
           with_agent == previous.call = "with_agent"
       IN  /\ \E q \in {get_current_electricity_price(price_cache, now,
                                                       location, env)} :
              \E r \in {IF previous.call = "standard"
                        THEN [result |-> calculate_extended_tco(asset, years),
                              asset |-> asset, called |-> FALSE]
                        ELSE calculate_extended_tco_with_energy_agent(
                                 asset, years, with_agent, q)} :
                /\ tco' = r.result
                /\ asset' = r.asset
                /\ calculation_history' =
                      IF previous.call = "standard" /\ r.result.status = "ok"
                      THEN calculation_history + 1 ELSE calculation_history
                /\ price_cache' = IF r.called THEN q.cache ELSE price_cache
                /\ stored_by' = IF r.called
                                THEN Stamp(stored_by, price_cache, q.cache,
                                           location)
                                ELSE stored_by
                /\ quote' = IF r.called
                            THEN [status |-> q.status, location |-> location,
                                  price |-> q.price, source |-> q.source,
                                  is_realtime |-> q.is_realtime,
                                  calls |-> q.calls]
                            ELSE quote
                /\ lookups' = IF r.called THEN lookups + 1 ELSE lookups
    /\ UNCHANGED <<asset_in, years, now>>
    /\ UNCHANGED <<escVars, simpleVars>>
    /\ UNCHANGED restVars

NextRepeat == EstimateStandard \/ EstimateWithoutAgent \/ EstimateWithAgent
                \/ EstimateAgain

\* The assets that differ from the example in at most one field.
RepeatAssets == {MakeAsset(c) : c \in {x \in AssetChoices : Deviations(x) <= 1}}

InitRepeat ==
    /\ InitAgent
    /\ InitRest
    /\ InitEsc
    /\ InitSimpleCall
    /\ asset_in \in RepeatAssets
    /\ asset = asset_in
    /\ years \in Lifetimes
    /\ tco = NoResult
    /\ calculation_history = 0
    /\ previous = NoPrevious

SpecRepeat == InitRepeat /\ [][NextRepeat]_vars

(***************************************************************************)
(* One call of _calculate_escalated_costs on a dict of two components.     *)
(* The annual costs are whole millions, so that compounding by 1.05 or     *)
(* 1.03 up to three times is exact.                                        *)
(***************************************************************************)
EscCosts == {k * 1000000 : k \in -1..MaxEscCost}

EscCategories == {"variable", "fixed", "one_time"}

EscComponents == {Component(c, cat, 80, EmptyDict) :
                    c \in EscCosts, cat \in EscCategories}

InitEscalation ==
    /\ InitAgent
    /\ InitRest
    /\ InitCalc
    /\ InitSimpleCall
    /\ esc_call \in [components : [{"maintenance", "installation"} -> EscComponents],
                      lifetime_years : Lifetimes]
    /\ esc_costs = NoCosts

\* escalated_costs = self._calculate_escalated_costs(components, lifetime_years)
Escalate ==
    /\ ~esc_costs.done
    /\ esc_costs' = [done |-> TRUE,
                     costs |-> calculate_escalated_costs(
                                   esc_call.components, esc_call.lifetime_years)]
    /\ UNCHANGED <<esc_call, agentVars, calcVars, simpleVars>>
    /\ UNCHANGED restVars

NextEscalation == Escalate

SpecEscalation == InitEscalation /\ [][NextEscalation]_vars

(***************************************************************************)
(* One call of calculate_simple_tco on a row of the machine list.          *)
(***************************************************************************)
Cell(has, v) == [has |-> has, v |-> v]

RowChoices ==
    [Listprice : {Cell(FALSE, 0), Cell(TRUE, 50000)},
     SEP_SQLLangtyp : {Cell(FALSE, ""), Cell(TRUE, "GFA 200"),
                       Cell(TRUE, "CSE 1500")},
     SEP_CapacityMaxInp : {Cell(FALSE, 0), Cell(TRUE, 3000), Cell(TRUE, 25000)},
     power : {Cell(FALSE, 0), Cell(TRUE, 44)},
     SEP_SQLOpWaterls : {Cell(FALSE, 0), Cell(TRUE, 12)}]

\* The rows of the model; the capacity is read only when the model name
\* gives no DMR.
MakeRow(c) ==
    LET r1 == IF c.Listprice.has
              THEN Put(EmptyDict, "Listprice", c.Listprice.v) ELSE EmptyDict
        r2 == IF c.SEP_SQLLangtyp.has
              THEN Put(r1, "SEP_SQLLangtyp", c.SEP_SQLLangtyp.v) ELSE r1
        r3 == IF c.SEP_CapacityMaxInp.has
              THEN Put(r2, "SEP_CapacityMaxInp", c.SEP_CapacityMaxInp.v) ELSE r2
        r4 == IF c.power.has
              THEN Put(r3, "power consumption TOTAL [kW]",
                       [int |-> FALSE, v |-> c.power.v])
              ELSE r3
    IN  IF c.SEP_SQLOpWaterls.has
        THEN Put(r4, "SEP_SQLOpWaterls", c.SEP_SQLOpWaterls.v) ELSE r4

Rows == {MakeRow(c) : c \in {x \in RowChoices :
                                x.SEP_SQLLangtyp = Cell(TRUE, "GFA 200")
                                  => ~x.SEP_CapacityMaxInp.has}}

SimpleStandorte == {"Duesseldorf (HQ)", "Shanghai", "Nowhere"}

InitSimple ==
    /\ InitAgent
    /\ InitRest
    /\ InitCalc
    /\ InitEsc
    /\ simple_call \in [row : Rows, standort : SimpleStandorte,
                         betriebsstunden_woche : {40, 168},
                         nutzungsdauer_jahre : Lifetimes,
                         energy_agent : BOOLEAN]
    /\ simple_tco = NoSimpleResult

\* calculate_simple_tco(row, standort, betriebsstunden_woche,
\* nutzungsdauer_jahre, energy_agent=None)
SimpleWithoutAgent ==
    /\ simple_tco.status = "none"
    /\ ~simple_call.energy_agent
    /\ simple_tco' = calculate_simple_tco(
                         simple_call.row, simple_call.standort,
                         simple_call.betriebsstunden_woche,
                         simple_call.nutzungsdauer_jahre, FALSE, NoQuote).result
    /\ UNCHANGED <<simple_call, agentVars, calcVars, escVars>>
    /\ UNCHANGED restVars

\* calculate_simple_tco(row, standort, betriebsstunden_woche,
\* nutzungsdauer_jahre, energy_agent) with the EnergyAgent of this model
SimpleWithAgent ==
    /\ simple_tco.status = "none"
    /\ simple_call.energy_agent
    /\ \E env \in EnvsFor(simple_call.standort) :
        LET q == get_current_electricity_price(price_cache, now,
                                               simple_call.standort, env)
            r == calculate_simple_tco(
                     simple_call.row, simple_call.standort,
                     simple_call.betriebsstunden_woche,
                     simple_call.nutzungsdauer_jahre, TRUE, q)
        IN  /\ simple_tco' = r.result
            /\ price_cache' = IF r.called THEN q.cache ELSE price_cache
            /\ stored_by' = IF r.called
                            THEN Stamp(stored_by, price_cache, q.cache,
                                       simple_call.standort)
                            ELSE stored_by
            /\ quote' = IF r.called
                        THEN [status |-> q.status,
                              location |-> simple_call.standort,
                              price |-> q.price, source |-> q.source,
                              is_realtime |-> q.is_realtime, calls |-> q.calls]
                        ELSE quote
            /\ lookups' = IF r.called THEN lookups + 1 ELSE lookups
    /\ UNCHANGED <<simple_call, now, calcVars, escVars>>
    /\ UNCHANGED restVars

NextSimple == SimpleWithoutAgent \/ SimpleWithAgent

SpecSimple == InitSimple /\ [][NextSimple]_vars

\* The simple estimation over the short horizons and over the default of 15
\* years of the signature, over which the services by time outnumber the
\* services by operating hours of a 40 hour week.
SimpleLifetimes == Lifetimes \cup {15}

InitService ==
    /\ InitAgent
    /\ InitRest
    /\ InitCalc
    /\ InitEsc
    /\ simple_call \in [row : Rows, standort : SimpleStandorte,
                         betriebsstunden_woche : {40, 168},
                         nutzungsdauer_jahre : SimpleLifetimes,
                         energy_agent : BOOLEAN]
    /\ simple_tco = NoSimpleResult

SpecService == InitService /\ [][NextSimple]_vars

(***************************************************************************)
(* One TCOPredictor, called by the pages of the application.  A step is    *)
(* one statement (or one run of statements that touch no field of the      *)
(* predictor) of train() or predict(); save_model and load_model are one   *)
(* step each.                                                              *)
(***************************************************************************)
calcEtc == <<agentVars, calcVars, escVars, simpleVars, concVars, rtVars,
             pageVars, wizardVars>>

\* predictor.train(path): the file check, read_csv and _remove_outliers
TrainStart ==
    /\ train_run.pc = "idle"
    /\ train_run.pass < MaxPasses
    /\ \E found \in BOOLEAN :
        IF found
        THEN /\ train_run' = [pc |-> "loaded", pass |-> train_run.pass + 1,
                              i |-> 0]
             /\ UNCHANGED ml_event
        ELSE /\ train_run' = [train_run EXCEPT !.pass = train_run.pass + 1]
             /\ ml_event' = Event("train", "FileNotFoundError")
    /\ UNCHANGED <<predictor, predict_run, model_file, calcEtc>>

\* prepare_features(df_clean, fit_encoders=True): the missing values,
\* self.feature_names = [] and the numerical features
TrainFeatures ==
    /\ train_run.pc = "loaded"
    /\ predictor' = [predictor EXCEPT !.feature_names = <<>>]
    /\ train_run' = [train_run EXCEPT !.pc = "encoding", !.i = 1]
    /\ UNCHANGED <<predict_run, model_file, ml_event, calcEtc>>

\* self.feature_encoders[feature] = encoder and
\* self.feature_names.append(feature), for the next categorical feature;
\* after the last one, the derived features
TrainEncode ==
    /\ train_run.pc = "encoding"
    /\ LET feature == Columns[train_run.i]
           last == train_run.i = Len(Columns)
       IN  /\ predictor' =
                [predictor EXCEPT
                    !.feature_encoders[feature] = train_run.pass,
                    !.feature_names = Append(predictor.feature_names, feature)]
           /\ train_run' = IF last
                           THEN [train_run EXCEPT !.pc = "prepared", !.i = 0]
                           ELSE [train_run EXCEPT !.i = train_run.i + 1]
    /\ UNCHANGED <<predict_run, model_file, ml_event, calcEtc>>

\* train_test_split, then self.scaler.fit_transform(X_train)
TrainScale ==
    /\ train_run.pc = "prepared"
    /\ predictor' = [predictor EXCEPT !.scaler = train_run.pass]
    /\ train_run' = [train_run EXCEPT !.pc = "scaled"]
    /\ UNCHANGED <<predict_run, model_file, ml_event, calcEtc>>

\* self.model = RandomForestRegressor(...)
TrainConstruct ==
    /\ train_run.pc = "scaled"
    /\ predictor' = [predictor EXCEPT
                        !.model = [pass |-> train_run.pass, fitted |-> FALSE]]
    /\ train_run' = [train_run EXCEPT !.pc = "constructed"]
    /\ UNCHANGED <<predict_run, model_file, ml_event, calcEtc>>

\* self.model.fit(X_train_scaled, y_train)
TrainFit ==
    /\ train_run.pc = "constructed"
    /\ predictor' = [predictor EXCEPT !.model.fitted = TRUE]
    /\ train_run' = [train_run EXCEPT !.pc = "fitted"]
    /\ UNCHANGED <<predict_run, model_file, ml_event, calcEtc>>

\* the metrics, and self.training_stats = {...}
TrainStats ==
    /\ train_run.pc = "fitted"
    /\ predictor' = [predictor EXCEPT !.training_stats = train_run.pass]
    /\ train_run' = [train_run EXCEPT !.pc = "stats"]
    /\ UNCHANGED <<predict_run, model_file, ml_event, calcEtc>>

\* self.model_trained = True; return self.training_stats
TrainDone ==
    /\ train_run.pc = "stats"
    /\ predictor' = [predictor EXCEPT !.model_trained = TRUE]
    /\ train_run' = [train_run EXCEPT !.pc = "idle"]
    /\ ml_event' = Event("train", "ok")
    /\ UNCHANGED <<predict_run, model_file, calcEtc>>

\* The statement train() is about to execute raises: _remove_outliers or
\* prepare_features on a file without the columns, LabelEncoder on a column
\* of mixed types, train_test_split on too few rows, the scaler or the
\* forest on values they reject.  Nothing is undone.
TrainRaise ==
    /\ train_run.pc \in {"loaded", "encoding", "prepared", "constructed"}
    /\ train_run' = [train_run EXCEPT !.pc = "idle", !.i = 0]
    /\ ml_event' = Event("train", "raised")
    /\ UNCHANGED <<predictor, predict_run, model_file, calcEtc>>

\* predictor.predict(asset_data): the guard
PredictStart ==
    /\ predict_run.pc = "idle"
    /\ IF predict_check(predictor) # ""
       THEN /\ ml_event' = Event("predict", predict_check(predictor))
            /\ UNCHANGED predict_run
       ELSE /\ predict_run' = [NoRead EXCEPT !.pc = "checked"]
            /\ UNCHANGED ml_event
    /\ UNCHANGED <<predictor, train_run, model_file, calcEtc>>

\* prepare_features(df, fit_encoders=False): self.feature_names = [], then
\* every column of the record is encoded with self.feature_encoders and
\* its name appended to self.feature_names
PredictFeatures ==
    /\ predict_run.pc = "checked"
    /\ \E record \in PredictRecords :
        /\ predictor' = [predictor EXCEPT !.feature_names = record]
        /\ predict_run' = [pc |-> "features", cols |-> Len(record)]
    /\ UNCHANGED <<train_run, model_file, ml_event, calcEtc>>

\* X_scaled = self.scaler.transform(X); a scaler never fitted raises
\* NotFittedError, a fitted one raises ValueError on a matrix that has
\* fewer columns than the training data
PredictScale ==
    /\ predict_run.pc = "features"
    /\ IF predictor.scaler = 0
       THEN /\ predict_run' = NoRead
            /\ ml_event' = Event("predict", "NotFittedError")
       ELSE IF predict_run.cols # Len(Columns)
       THEN /\ predict_run' = NoRead
            /\ ml_event' = Event("predict", "ValueError")
       ELSE /\ predict_run' = [predict_run EXCEPT !.pc = "scaled"]
            /\ UNCHANGED ml_event
    /\ UNCHANGED <<predictor, train_run, model_file, calcEtc>>

\* prediction = self.model.predict(X_scaled)[0], the confidence and the
\* returned dict
PredictModel ==
    /\ predict_run.pc = "scaled"
    /\ predict_run' = NoRead
    /\ ml_event' =
         IF predictor.model = NoModel
         THEN Event("predict", "AttributeError")
         ELSE IF ~predictor.model.fitted
         THEN Event("predict", "NotFittedError")
         ELSE Event("predict", "ok")
    /\ UNCHANGED <<predictor, train_run, model_file, calcEtc>>

\* predictor.save_model(filepath).  Every caller saves after its own
\* train() call has returned (tco_predictor.py 427-430, step3.py 37-38,
\* step3_erweitert.py 42-43): no train() is under way.
SaveModel ==
    /\ train_run.pc = "idle"
    /\ IF save_check(predictor) # ""
       THEN /\ ml_event' = Event("save_model", save_check(predictor))
            /\ UNCHANGED model_file
       ELSE /\ model_file' =
                 [exists |-> TRUE, model |-> predictor.model,
                  feature_encoders |-> predictor.feature_encoders,
                  scaler |-> predictor.scaler,
                  feature_names |-> predictor.feature_names,
                  training_stats |-> predictor.training_stats]
            /\ ml_event' = Event("save_model", "ok")
    /\ UNCHANGED <<predictor, train_run, predict_run, calcEtc>>

\* predictor.load_model(filepath), of a file written by save_model
LoadModel ==
    /\ IF ~model_file.exists
       THEN /\ ml_event' = Event("load_model", "FileNotFoundError")
            /\ UNCHANGED predictor
       ELSE /\ predictor' =
                 [model |-> model_file.model,
                  feature_encoders |-> model_file.feature_encoders,
                  scaler |-> model_file.scaler,
                  feature_names |-> model_file.feature_names,
                  training_stats |-> model_file.training_stats,
                  model_trained |-> TRUE]
            /\ ml_event' = Event("load_model", "ok")
    /\ UNCHANGED <<train_run, predict_run, model_file, calcEtc>>

NextPredictor ==
    \/ TrainStart \/ TrainFeatures \/ TrainEncode \/ TrainScale
    \/ TrainConstruct \/ TrainFit \/ TrainStats \/ TrainDone \/ TrainRaise
    \/ PredictStart \/ PredictFeatures \/ PredictScale \/ PredictModel
    \/ SaveModel \/ LoadModel

(***************************************************************************)
(* The steps of the concurrent lookups.                                    *)
(***************************************************************************)
CountryOf(th) == Get(location_to_country, threads[th].location, "Default")

ProviderOf(th) == ProvidersOf(CountryOf(th))[threads[th].k]

\* What a thread does with a provider's (price, source): return it, divided
\* by 1000, when the price is truthy; else go on to the next provider, or to
\* the static fallback after the last one.
Resolved(t, country, price, source) ==
    IF Truthy(price)
    THEN LET r == LiveReturn([price |-> price, source |-> source,
                              cache |-> EmptyDict], <<>>)
         IN  [t EXCEPT !.pc = "done",
                       !.out = [status |-> r.status, price |-> r.price,
                                source |-> r.source,
                                is_realtime |-> r.is_realtime]]
    ELSE IF t.k < Len(ProvidersOf(country))
    THEN [t EXCEPT !.pc = "check", !.k = t.k + 1]
    ELSE LET r == FallbackReturn(country, EmptyDict, <<>>)
         IN  [t EXCEPT !.pc = "done",
                       !.out = [status |-> r.status, price |-> r.price,
                                source |-> r.source,
                                is_realtime |-> r.is_realtime]]

\* A request thread calls get_current_electricity_price(location)
Begin(th) ==
    /\ threads[th].pc = "idle"
    /\ \E location \in ConcLocations :
        LET country == Get(location_to_country, location, "Default")
            t == [NoThread EXCEPT !.location = location]
        IN  threads' = [threads EXCEPT ![th] =
                IF Len(ProvidersOf(country)) = 0
                THEN Resolved(t, country, None, "")
                ELSE [t EXCEPT !.pc = "check", !.k = 1]]
    /\ UNCHANGED <<agentVars, calcVars, escVars, simpleVars, mlVars, rtVars,
                   pageVars, wizardVars>>

\* The head of _get_epex_spot_price, _get_entsoe_price, _get_awattar_price:
\* the cache key of this hour, the test for a fresh entry
Check(th) ==
    /\ threads[th].pc = "check"
    /\ LET key == <<ProviderOf(th), CountryOf(th), HourBucket(now)>>
       IN  threads' = [threads EXCEPT ![th] =
               IF CacheHit(price_cache, key, now)
               THEN Resolved(threads[th], CountryOf(th), price_cache[key].price,
                             CachedSources[ProviderOf(th)])
               ELSE [threads[th] EXCEPT !.pc = "request", !.key = key]]
    /\ UNCHANGED <<agentVars, calcVars, escVars, simpleVars, mlVars, rtVars,
                   pageVars, wizardVars>>

\* The provider's answer arrives (for Entso-E: the simulated price is
\* computed, or the test double fails): a price is stored under the key
\* computed before the request, and returned
Respond(th) ==
    /\ threads[th].pc = "request"
    /\ \E price \in ConcPrices(CountryOf(th))[ProviderOf(th)] :
        IF price = None
        THEN /\ threads' = [threads EXCEPT ![th] =
                    Resolved(threads[th], CountryOf(th), None, "")]
             /\ UNCHANGED <<price_cache, stored_by>>
        ELSE /\ price_cache' = store(price_cache, threads[th].key, now, price)
             /\ stored_by' = Put(stored_by, threads[th].key, threads[th].location)
             /\ threads' = [threads EXCEPT ![th] =
                    Resolved(threads[th], CountryOf(th), price,
                             LiveSources[ProviderOf(th)])]
    /\ UNCHANGED <<now, quote, lookups, calcVars, escVars, simpleVars, mlVars,
                   rtVars, pageVars, wizardVars>>

\* One call of get_current_electricity_price(location).
Lookup ==
    /\ lookups < MaxLookups
    /\ lookups' = lookups + 1
    /\ \E location \in Locations :
       \E env \in EnvsFor(location) :
        LET r == get_current_electricity_price(price_cache, now, location, env)
        IN  /\ price_cache' = r.cache
            /\ stored_by' = Stamp(stored_by, price_cache, r.cache, location)
            /\ quote' = [status |-> r.status, location |-> location,
                         price |-> r.price, source |-> r.source,
                         is_realtime |-> r.is_realtime, calls |-> r.calls]
            /\ now' = now
    /\ UNCHANGED <<calcVars, escVars, simpleVars>>
    /\ UNCHANGED restVars

\* Time passes (half an hour).
Tick ==
    /\ now + 1800 <= MaxTicks * 1800
    /\ now' = now + 1800
    /\ UNCHANGED <<price_cache, quote, lookups, stored_by>>
    /\ UNCHANGED <<calcVars, escVars, simpleVars>>
    /\ UNCHANGED restVars

Init == InitAgent /\ InitCalc /\ InitEsc /\ InitSimpleCall /\ InitRest

Next == Lookup \/ Tick

Spec == Init /\ [][Next]_vars

SpecPredictor == Init /\ [][NextPredictor]_vars

NextConcurrent ==
    \/ \E th \in Threads : Begin(th) \/ Check(th) \/ Respond(th)
    \/ Tick

SpecConcurrent == Init /\ [][NextConcurrent]_vars

(***************************************************************************)
(* The energy component on its own.  add_realtime_energy_component takes   *)
(* the agent as an argument and asks nothing of it but the method          *)
(* get_current_electricity_price; its except clause catches whatever that  *)
(* call raises.  The agent given is None, the repository's EnergyAgent, or *)
(* an agent whose call raises.                                             *)
(***************************************************************************)
Agents == {"None", "EnergyAgent", "Raising"}

\* The asset of the self test, at every location of the model
RealtimeAssets == {[ExampleAsset EXCEPT !.location = l] : l \in Locations}

\* The call energy_agent.get_current_electricity_price(location) raising
AgentRaises(cache) ==
    [status |-> "Exception", price |-> 0, source |-> "", is_realtime |-> FALSE,
     cache |-> cache, calls |-> <<>>]

\* What the agent did, as the component saw it
AnswerOf(called, q) ==
    IF ~called THEN "not asked"
    ELSE IF q.status # "ok" THEN "raised"
    ELSE IF q.is_realtime THEN "live" ELSE "static"

RealtimeCall ==
    /\ rt_call.status = "none"
    /\ \E a \in RealtimeAssets, agent \in Agents :
       \E env \in EnvsFor(a.location) :
       \E q \in {IF agent = "Raising" THEN AgentRaises(price_cache)
                 ELSE get_current_electricity_price(price_cache, now,
                                                    a.location, env)} :
       \E r \in {add_realtime_energy_component(a, agent # "None", q)} :
        /\ rt_call' = [status |-> "done", location |-> a.location,
                       agent |-> agent, answer |-> AnswerOf(r.called, q),
                       out |-> r.comp]
        /\ price_cache' = IF r.called THEN q.cache ELSE price_cache
        /\ stored_by' = IF r.called
                        THEN Stamp(stored_by, price_cache, q.cache, a.location)
                        ELSE stored_by
        /\ quote' = IF r.called /\ agent = "EnergyAgent"
                    THEN [status |-> q.status, location |-> a.location,
                          price |-> q.price, source |-> q.source,
                          is_realtime |-> q.is_realtime, calls |-> q.calls]
                    ELSE quote
        /\ lookups' = IF r.called /\ agent = "EnergyAgent"
                      THEN lookups + 1 ELSE lookups
    /\ UNCHANGED <<now, calcVars, escVars, simpleVars, mlVars, concVars,
                   pageVars, wizardVars>>

NextRealtime == RealtimeCall \/ Tick

SpecRealtime == Init /\ [][NextRealtime]_vars

(***************************************************************************)
(* The extended result page: an estimation, then the lifetime chart drawn  *)
(* from its result.                                                        *)
(***************************************************************************)
\* create_lifetime_cost_chart(tco_result) for the result of the estimation
ShowLifetimeChart ==
    /\ tco.status = "ok"
    /\ ~chart.shown
    /\ \E c \in {create_lifetime_cost_chart(tco)} :
        chart' = [shown |-> TRUE, annual_costs |-> c.annual_costs,
                  cumulative_costs |-> c.cumulative_costs]
    /\ UNCHANGED <<agentVars, calcVars, escVars, simpleVars, mlVars, concVars,
                   rtVars, wizardVars>>

NextChart == EstimateStandard \/ EstimateWithoutAgent \/ EstimateWithAgent
                \/ ShowLifetimeChart

SpecChart == InitRepeat /\ [][NextChart]_vars

(***************************************************************************)
(* Claims about the price lookup.                                          *)
(***************************************************************************)
AllProvidersFailed ==
    /\ quote.status # "none"
    /\ \A i \in 1..Len(quote.calls) : quote.calls[i].price = None

\* C1: when every provider consulted by a lookup returns no price, the
\* lookup returns the static fallback price of the location's country, not
\* marked live: 0.28 for Berlin (Germany), 0.32 for Kopenhagen (Denmark), and
\* the 'Default' price 0.25 for a location or country without a fallback entry.
C1_FallbackWhenAllProvidersFail ==
    AllProvidersFailed =>
        /\ quote.status = "ok"
        /\ quote.is_realtime = FALSE
        /\ quote.source = "Fallback (Static)"
        /\ quote.location = "Berlin" => quote.price = 2800
        /\ quote.location = "Kopenhagen" => quote.price = 3200
        /\ quote.location = "Shanghai" => quote.price = 2500
        /\ quote.location = "Nowhere" => quote.price = 2500

\* Berlin with EPEX, Entso-E and aWATTar all consulted and all failing.
C1_Witness ==
    /\ AllProvidersFailed
    /\ quote.location = "Berlin"
    /\ Len(quote.calls) = 3
    /\ quote.price = 2800
    /\ ~quote.is_realtime

\* C2: every call of get_current_electricity_price returns a quote; none
\* ends by raising, whatever the providers answer.
C2_LookupNeverRaises == quote.status \in {"none", "ok"}

\* A provider answered with a non-numeric price and the lookup raised.
C2_Witness ==
    /\ quote.status = "TypeError"
    /\ quote.calls[Len(quote.calls)].price = Str

(***************************************************************************)
(* Claims about the TCO estimation.                                        *)
(***************************************************************************)
Estimated == tco.status # "none"

KnownLocation(a) == Get(a, "location", "Duesseldorf (HQ)") \in RegionalLocations

KnownEnums(a) ==
    /\ Get(a, "drive_type", "flat - belt drive") \in DOMAIN complexity_factors
    /\ Get(a, "quality_level", "standard - Level") \in DOMAIN quality_factors
    /\ Get(a, "usage_pattern", "Standard (8h/Tag)") \in UsagePatterns
    /\ Get(a, "criticality", "Mittel") \in DOMAIN criticality_monitoring

HasPrice(a) == "purchase_price" \in DOMAIN a

\* C3: an estimation for an asset at a location outside the regional tables
\* (all else known, horizon >= 1) completes, and its energy, water, personnel
\* and compliance components use the 'Andere' entries of the tables.
C3_UnknownLocationUsesDefaultBucket ==
    (/\ Estimated
     /\ ~KnownLocation(asset_in)
     /\ KnownEnums(asset_in)
     /\ years >= 1)
    => /\ tco.status = "ok"
       /\ ~tco.agent => tco.components.energy.factors.electricity_price
                          = electricity_prices["Andere"]
       /\ tco.components.water.factors.water_price = water_prices["Andere"]
       /\ tco.components.personnel.factors.hourly_wage = labor_costs["Andere"]
       /\ tco.components.compliance.factors.regional_factor
            = regulatory_compliance["Andere"]

\* The estimation for an otherwise valid asset at 'Nowhere' ended in KeyError.
C3_Witness ==
    /\ tco.status = "KeyError"
    /\ asset_in.location = "Nowhere"
    /\ KnownEnums(asset_in)
    /\ years >= 1

\* C4: an estimation for an asset whose drive_type, quality_level,
\* usage_pattern or criticality is outside its factor table (location known,
\* horizon >= 1) completes, with factor 1.0 for the unknown drive type,
\* quality level and criticality.
C4_UnknownEnumUsesNeutralDefault ==
    (/\ Estimated
     /\ KnownLocation(asset_in)
     /\ ~KnownEnums(asset_in)
     /\ years >= 1)
    => /\ tco.status = "ok"
       /\ asset_in.drive_type \notin DOMAIN complexity_factors
            => tco.components.maintenance.factors.complexity_factor = 1000
       /\ asset_in.quality_level \notin DOMAIN quality_factors
            => tco.components.maintenance.factors.quality_factor = 1000
       /\ asset_in.criticality \notin DOMAIN criticality_monitoring
            => tco.components.personnel.factors.criticality_factor = 1000

\* An estimation ended in KeyError for an asset that is valid except for its
\* drive type.
C4_Witness ==
    /\ tco.status = "KeyError"
    /\ KnownLocation(asset_in)
    /\ asset_in.drive_type = "hydraulic drive"
    /\ asset_in.quality_level = "premium - Level"
    /\ asset_in.usage_pattern \in UsagePatterns
    /\ asset_in.criticality = "Hoch"
    /\ years >= 1

\* C5: an estimation for an asset record without a purchase price, or with
\* a purchase price <= 0, returns no TCO result.
C5_BadPriceRejected ==
    (/\ Estimated
     /\ \/ ~HasPrice(asset_in)
        \/ asset_in.purchase_price <= 0)
    => tco.status # "ok"

\* A result was returned for a record without a price, computed from the
\* default price 100000.
C5_Witness ==
    /\ tco.status = "ok"
    /\ ~HasPrice(asset_in)
    /\ tco.purchase_price = 100000
    /\ tco.total_tco > 0

\* A valid asset record: known enum values and location, non-negative power,
\* water and age.
ValidAsset(a) ==
    /\ KnownLocation(a)
    /\ KnownEnums(a)
    /\ a.total_power_consumption >= 0
    /\ a.water_consumption_ls >= 0
    /\ a.water_per_ejection >= 0
    /\ a.age_years >= 0

\* C6: an estimation for a valid asset record with purchase_price > 0 and a
\* horizon >= 1 returns a result with total_tco > 0 and tco_multiple > 0.
C6_PositiveTCO ==
    (/\ Estimated
     /\ ValidAsset(asset_in)
     /\ HasPrice(asset_in)
     /\ asset_in.purchase_price > 0
     /\ years >= 1)
    => /\ tco.status = "ok"
       /\ tco.total_tco > 0
       /\ tco.tco_multiple > 0

\* A result with a total TCO below zero for a valid record, its energy
\* component priced with a negative live quote.
C6_Witness ==
    /\ tco.status = "ok"
    /\ ValidAsset(asset_in)
    /\ HasPrice(asset_in)
    /\ asset_in.purchase_price > 0
    /\ years >= 1
    /\ tco.total_tco < 0
    /\ tco.components.energy.factors.electricity_price < 0
    /\ tco.components.energy.factors.electricity_price_realtime

\* C7: every result has 0 <= overall_confidence <= 1.
C7_ConfidenceInUnitInterval ==
    tco.status = "ok" => /\ tco.overall_confidence >= 0
                         /\ tco.overall_confidence <= 100

\* A result whose confidence is below zero: the energy component, computed
\* from a negative power figure, has a negative cost.
C7_Witness ==
    /\ tco.status = "ok"
    /\ tco.overall_confidence < 0
    /\ tco.components.energy.annual_cost < 0
    /\ tco.total_annual_operating > 0

\* C8: in a result computed with an energy agent, the overall confidence is
\* the cost-weighted mean plus 0.10 exactly when the energy component was
\* priced with a live quote, capped at 1.0.
C8_BonusOnlyForLiveQuote ==
    (/\ tco.status = "ok"
     /\ tco.agent
     /\ tco.total_annual_operating > 0)
    => /\ tco.overall_confidence =
            Min(WeightedConfidence(tco.components, tco.total_annual_operating)
                  + (IF tco.components.energy.factors.electricity_price_realtime
                     THEN 10 ELSE 0),
                100)
       /\ tco.energy_agent_bonus = 10
            <=> tco.components.energy.factors.electricity_price_realtime

\* A result computed with an agent that answered with its static fallback:
\* the energy component is not live and the bonus was added all the same.
C8_Witness ==
    /\ tco.status = "ok"
    /\ tco.agent
    /\ tco.total_annual_operating > 0
    /\ ~tco.components.energy.factors.electricity_price_realtime
    /\ tco.components.energy.factors.price_source = "Fallback (Static)"
    /\ tco.energy_agent_bonus = 10
    /\ tco.overall_confidence =
         WeightedConfidence(tco.components, tco.total_annual_operating) + 10

(***************************************************************************)
(* Claims about escalation and discounting.                                *)
(***************************************************************************)
RECURSIVE Pow(_, _)
Pow(b, e) == IF e <= 0 THEN 1 ELSE b * Pow(b, e - 1)

\* The sum over y = 1..N of C * (num/100)^(y-1), for C a multiple of
\* 100^(N-1)
RECURSIVE GeometricSum(_, _, _)
GeometricSum(C, num, N) ==
    IF N <= 0 THEN 0
    ELSE GeometricSum(C, num, N - 1) + (C \div Pow(100, N - 1)) * Pow(num, N - 1)

\* C9: for a horizon N >= 1, _calculate_escalated_costs returns for every
\* component with annual cost C the sum over y = 1..N of C * 1.05^(y-1) if it
\* is 'variable', of C * 1.03^(y-1) if it is 'fixed', and C itself if it is
\* 'one_time'; for N = 1 that is C, the first year is not escalated.
C9_EscalationSums ==
    (esc_costs.done /\ esc_call.lifetime_years >= 1) =>
        \A name \in DOMAIN esc_call.components :
            LET c == esc_call.components[name]
                N == esc_call.lifetime_years
            IN  /\ name \in DOMAIN esc_costs.costs
                /\ esc_costs.costs[name] =
                     CASE c.category = "variable"
                            -> GeometricSum(c.annual_cost, 105, N)
                       [] c.category = "fixed"
                            -> GeometricSum(c.annual_cost, 103, N)
                       [] OTHER -> c.annual_cost
                /\ N = 1 => esc_costs.costs[name] = c.annual_cost

\* Three years of a variable 1,000,000 (1 + 1.05 + 1.1025 million) and of a
\* fixed 2,000,000 (2 + 2.06 + 2.1218 million).
C9_Witness ==
    /\ esc_costs.done
    /\ esc_call.lifetime_years = 3
    /\ esc_call.components["maintenance"].category = "variable"
    /\ esc_call.components["maintenance"].annual_cost = 1000000
    /\ esc_costs.costs["maintenance"] = 3152500
    /\ esc_call.components["installation"].category = "fixed"
    /\ esc_call.components["installation"].annual_cost = 2000000
    /\ esc_costs.costs["installation"] = 6181800

\* 1 / 1.05^y in 1/1000000, y = 1..6
ReciprocalPow105 == <<952381, 907029, 863838, 822702, 783526, 746215>>

\* O / 1.05^y by multiplying with the reciprocal
ReciprocalTerm(O, y) ==
    ((O \div 1000) * ReciprocalPow105[y]) \div 1000
      + ((O % 1000) * ReciprocalPow105[y]) \div 1000000

\* The sum over y = 1..N of O / 1.05^y
RECURSIVE DiscountedSum(_, _)
DiscountedSum(O, N) ==
    IF N <= 0 THEN 0 ELSE DiscountedSum(O, N - 1) + ReciprocalTerm(O, N)

\* The rounding allowed between the two ways of computing N discounted
\* years: up to y for the y divisions of year y, and 3 for its reciprocal.
Tolerance(N) == (N * (N + 1)) \div 2 + 3 * N

Abs(x) == IF x >= 0 THEN x ELSE -x

\* annual_energy_cost + annual_water_cost + annual_service_cost of a result
YearlyOperating(r) ==
    r.annual_energy_cost.v + r.annual_water_cost + r.annual_service_cost

\* C10: for a horizon N >= 1 the discounted TCO of calculate_simple_tco is
\* purchase_price + the sum over y = 1..N of O / 1.05^y (purchase price
\* undiscounted, year 1 discounted once), the undiscounted TCO is
\* purchase_price + N * O, and for O >= 0 the discounted TCO does not exceed
\* the undiscounted one.
C10_DiscountedTCO ==
    (simple_tco.status = "ok" /\ simple_tco.nutzungsdauer_jahre >= 1) =>
        LET O == YearlyOperating(simple_tco)
            N == simple_tco.nutzungsdauer_jahre
        IN  /\ Abs(simple_tco.total_tco
                     - (simple_tco.purchase_price + DiscountedSum(O, N)))
                  <= Tolerance(N)
            /\ simple_tco.undiscounted_tco = simple_tco.purchase_price + N * O
            /\ O >= 0 => simple_tco.total_tco <= simple_tco.undiscounted_tco

\* Three years of a positive operating cost on a machine of 50000 EUR: the
\* discounted TCO is below the undiscounted one and above the price.
C10_Witness ==
    /\ simple_tco.status = "ok"
    /\ simple_tco.nutzungsdauer_jahre = 3
    /\ simple_tco.purchase_price = 50000
    /\ YearlyOperating(simple_tco) > 1000
    /\ simple_tco.total_tco < simple_tco.undiscounted_tco
    /\ simple_tco.total_tco > simple_tco.purchase_price

(***************************************************************************)
(* Claims about repeated estimations.                                      *)
(***************************************************************************)
Repeated == previous.repeated

\* C11: two consecutive estimations on the same calculator, with the same
\* asset record, horizon and agent and with providers that answer the same,
\* return equal results (the timestamp, which the model leaves out, aside):
\* the first call leaves nothing behind that changes the second result.
C11_RepeatedEstimationEqual ==
    Repeated => tco = previous.result

\* An estimation with a live EPEX quote, repeated, both calls succeeding.
C11_Witness ==
    /\ Repeated
    /\ previous.call = "with_agent"
    /\ previous.result.status = "ok"
    /\ tco.status = "ok"
    /\ previous.result.components.energy.factors.price_source = "EPEX SPOT (Live)"

\* The repeated call differs only in what the first call left in the price
\* cache: totals and confidence are equal, the energy component's
\* price_source is not.
C11_Counterexample ==
    ~(/\ Repeated
      /\ previous.call = "with_agent"
      /\ previous.result.status = "ok"
      /\ tco.status = "ok"
      /\ tco.total_tco = previous.result.total_tco
      /\ tco.components.energy.factors.price_source
            # previous.result.components.energy.factors.price_source)

(***************************************************************************)
(* Claims about the TCOPredictor.                                          *)
(***************************************************************************)
Untrained == ~predictor.model_trained

\* C12: a TCOPredictor is untrained after construction and becomes trained
\* only by the last statement of train() or by load_model(); while it is
\* untrained, predict() and save_model() raise the not-trained ValueError,
\* no prediction gets under way or is returned, no file is written, and the
\* predictor stays untrained and unchanged.
C12_UntrainedPredictorRejects ==
    /\ Untrained
    /\ [][/\ (Untrained /\ predictor'.model_trained) => (TrainDone \/ LoadModel)
          /\ (Untrained /\ (PredictStart \/ SaveModel)) =>
                /\ ml_event'.op \in {"predict", "save_model"}
                /\ ml_event'.status = "ValueError"
                /\ UNCHANGED <<predictor, predict_run, model_file>>
          /\ Untrained' =>
                /\ predict_run'.pc = "idle"
                /\ ~model_file'.exists
                /\ ~(ml_event'.op \in {"predict", "save_model"}
                       /\ ml_event'.status = "ok")]_vars

\* predict() was refused on a predictor whose only train() call had failed
\* after it replaced the encoders.
C12_Witness ==
    /\ Untrained
    /\ ml_event = Event("predict", "ValueError")
    /\ train_run.pass = 1
    /\ \A f \in CategoricalNames : predictor.feature_encoders[f] = 1

\* The parts that predict() uses all come from one completed training pass.
SamePass(p) ==
    /\ p.model.fitted
    /\ p.scaler = p.model.pass
    /\ \A f \in CategoricalNames : p.feature_encoders[f] = p.model.pass

\* C13: in every reachable state of a predictor marked trained, the model,
\* the feature encoders and the scaler come from the same training pass,
\* also while a train() on the trained predictor runs and after it failed
\* midway.
C13_TrainingIsAtomic ==
    predictor.model_trained => SamePass(predictor)

\* A second train() on a trained predictor raised after it had replaced the
\* encoders: the predictor stays trained with the encoders of pass 2 and the
\* scaler and model of pass 1, and predict() is then answered from them.
C13_Witness ==
    /\ predictor.model_trained
    /\ train_run = [pc |-> "idle", pass |-> 2, i |-> 0]
    /\ predict_run.pc = "idle"
    /\ ml_event = Event("predict", "ok")
    /\ predictor.model = [pass |-> 1, fitted |-> TRUE]
    /\ predictor.scaler = 1
    /\ \A f \in CategoricalNames : predictor.feature_encoders[f] = 2

(***************************************************************************)
(* Claims about the price cache.                                           *)
(***************************************************************************)
\* The cache key behind a quote that was answered from the cache at time t.
ServedKey(q, t) ==
    LET provider == CHOOSE x \in DOMAIN CachedSources : CachedSources[x] = q.source
    IN  <<provider, Get(location_to_country, q.location, "Default"),
          HourBucket(t)>>

FromCache(q) == \E x \in DOMAIN CachedSources : CachedSources[x] = q.source

\* C15: a lookup is answered from the cache only with an entry that a lookup
\* for the same provider, the same location and the same hour bucket stored
\* less than one hour before.
C15_CacheServedToSameLookupOnly ==
    [][(lookups' = lookups + 1 /\ FromCache(quote')) =>
          LET key == ServedKey(quote', now)
          IN  /\ key \in DOMAIN price_cache
              /\ HourBucket(price_cache[key].time) = HourBucket(now)
              /\ now - price_cache[key].time < cache_duration
              /\ stored_by[key] = quote'.location]_vars

\* A lookup for Hamburg was answered with the EPEX price that a lookup for
\* Berlin had stored half an hour before.
C15_Witness ==
    /\ lookups = 2
    /\ now = 1800
    /\ quote.location = "Hamburg"
    /\ quote.status = "ok"
    /\ quote.source = "EPEX SPOT (Cached)"
    /\ <<"epex", "Germany", 0>> \in DOMAIN price_cache
    /\ price_cache[<<"epex", "Germany", 0>>].time = 0
    /\ stored_by[<<"epex", "Germany", 0>>] = "Berlin"

(***************************************************************************)
(* Claims about concurrent lookups.                                        *)
(***************************************************************************)
\* A cache entry is a complete pair: a time at or after the start of the
\* key's hour, and a price that the key's provider answered for the key's
\* country.
CompleteEntry(key) ==
    /\ price_cache[key].time \in 0..(MaxTicks * 1800)
    /\ HourBucket(price_cache[key].time) >= key[3]
    /\ price_cache[key].price \in ConcPrices(key[2])[key[1]] \ {None}

\* What a finished lookup returned is whole: a provider's price for the
\* country, divided by 1000 and marked live, or the static fallback.
WholeOutcome(th) ==
    LET out == threads[th].out
        country == CountryOf(th)
    IN  \/ /\ out.is_realtime
           /\ \E x \in DOMAIN LiveSources :
                /\ out.source \in {LiveSources[x], CachedSources[x]}
                /\ \E price \in ConcPrices(country)[x] \ {None, Str} :
                      out.price = Div1000(price.v)
        \/ /\ ~out.is_realtime
           /\ out.source = "Fallback (Static)"
           /\ out.price = Get(init_fallback_prices, country,
                              init_fallback_prices["Default"])

\* C14: under every interleaving of concurrent lookups on one EnergyAgent,
\* every cache entry is a complete (timestamp, price) pair of one provider
\* answer for the entry's provider, country and hour, and every lookup
\* that was answered from the cache, or by a well-formed provider answer,
\* returns, with a whole value: none fails because of what another lookup
\* wrote to the cache.
C14_ConcurrentLookupsSafe ==
    /\ \A key \in DOMAIN price_cache : CompleteEntry(key)
    /\ \A th \in Threads :
          threads[th].pc = "done" =>
              \/ /\ threads[th].out.status = "ok"
                 /\ WholeOutcome(th)
              \/ /\ threads[th].out.status = "TypeError"
                 /\ \E x \in DOMAIN LiveSources :
                        threads[th].out.source = LiveSources[x]

\* Two concurrent lookups for Berlin: one stored the malformed EPEX price
\* and raised, the other found it in the cache and raised as well.
C14_Witness ==
    /\ \A th \in Threads : threads[th].pc = "done"
    /\ threads[1].out.status = "TypeError"
    /\ threads[1].out.source = "EPEX SPOT (Live)"
    /\ threads[2].out.status = "TypeError"
    /\ threads[2].out.source = "EPEX SPOT (Cached)"
    /\ price_cache[<<"epex", "Germany", 0>>].price = Str

(***************************************************************************)
(* More claims about the estimations.                                      *)
(***************************************************************************)
\* C16: in every result, the annual_cost of every component is at least 0;
\* a negative live price and a negative power or water consumption are
\* clamped to 0.
C16_ComponentCostsNonNegative ==
    tco.status = "ok" =>
        \A n \in DOMAIN tco.components : tco.components[n].annual_cost >= 0

\* The example asset with a live EPEX price of -500 EUR/MWh: the energy
\* component of the result is negative.
C16_Witness ==
    /\ tco.status = "ok"
    /\ asset_in = ExampleAsset
    /\ tco.components.energy.factors.electricity_price = -5000
    /\ tco.components.energy.annual_cost < 0
(***************************************************************************)
(* C17  When the energy agent raises, or answers with its static fallback  *)
(* only, add_realtime_energy_component still returns an energy component   *)
(* and does not raise: the component is marked not live                    *)
(* (electricity_price_realtime = False) with confidence 0.85, whereas a    *)
(* live quote gives confidence 0.95; at every location, one outside the    *)
(* regional price table included.                                          *)
(***************************************************************************)
AgentFellBack == /\ rt_call.status = "done"
                 /\ rt_call.answer \in {"raised", "static"}

C17_EnergyComponentSurvivesAgentFailure ==
    /\ AgentFellBack =>
         /\ rt_call.out.err = ""
         /\ rt_call.out.factors.electricity_price_realtime = FALSE
         /\ rt_call.out.confidence = 85
    /\ (rt_call.status = "done" /\ rt_call.answer = "live") =>
         /\ rt_call.out.err = ""
         /\ rt_call.out.confidence = 95

\* The agent raised at a location that the regional price table does not
\* have, and the component call raised KeyError.
C17_Witness ==
    /\ rt_call.status = "done"
    /\ rt_call.answer = "raised"
    /\ rt_call.location \notin DOMAIN electricity_prices
    /\ rt_call.out.err = "KeyError"


(***************************************************************************)
(* C18  When no price source is supplied (energy_agent is None), the       *)
(* energy cost of every supported location is computed from that           *)
(* location's numeric static electricity price: the price returned by      *)
(* get_electricity_price is a number, never a placeholder, and the         *)
(* estimation does not fail.  (Stated for a lifetime of at least one       *)
(* year.)                                                                  *)
(***************************************************************************)
EstimatedWithoutSource ==
    /\ simple_tco.status # "none"
    /\ ~simple_call.energy_agent
    /\ simple_call.standort \in Standorte
    /\ simple_call.nutzungsdauer_jahre >= 1

C18_NoAgentUsesNumericStaticPrice ==
    EstimatedWithoutSource =>
        /\ get_electricity_price(simple_call.standort, FALSE,
                                 NoQuote).price.kind = "num"
        /\ simple_tco.status = "ok"
        /\ simple_tco.electricity_price.kind = "num"
        /\ simple_tco.annual_energy_cost.kind = "num"

\* Without an agent the price of 'Duesseldorf (HQ)' is the marker string
\* 'ENERGY_AGENT', and the estimation raised TypeError.
C18_Witness ==
    /\ EstimatedWithoutSource
    /\ simple_call.standort = "Duesseldorf (HQ)"
    /\ get_electricity_price(simple_call.standort, FALSE, NoQuote).price = Str
    /\ simple_tco.status = "TypeError"


(***************************************************************************)
(* C19  For any two asset records that differ only in age_years, with      *)
(* 0 <= a1 <= a2, the maintenance component's annual_cost for a1 is at     *)
(* most that for a2.  The record estimated is compared with the same       *)
(* record at every other age.                                              *)
(***************************************************************************)
AtAge(a) == add_base_maintenance_component([asset_in EXCEPT !.age_years = a])

C19_MaintenanceMonotoneInAge ==
    tco.status = "ok" =>
        \A a \in Ages :
            /\ a <= asset_in.age_years =>
                 AtAge(a).annual_cost <= tco.components.maintenance.annual_cost
            /\ a >= asset_in.age_years =>
                 AtAge(a).annual_cost >= tco.components.maintenance.annual_cost

\* A new machine with a purchase price of -1000 was estimated; the same
\* record MaxAge years older has the lower maintenance cost.
C19_Witness ==
    /\ tco.status = "ok"
    /\ "purchase_price" \in DOMAIN asset_in
    /\ asset_in.purchase_price = -1000
    /\ asset_in.age_years = 0
    /\ tco.components.maintenance = AtAge(0)
    /\ AtAge(MaxAge).annual_cost < tco.components.maintenance.annual_cost


(***************************************************************************)
(* C20  A TCO estimation requested with a lifetime of less than one year   *)
(* (lifetime_years zero or negative) is rejected with a validation error   *)
(* before any cost is computed: it never ends in a division error, never   *)
(* returns a result, and has computed nothing (the component methods have  *)
(* stored no key in the caller's record, nothing was appended to the       *)
(* history).                                                               *)
(***************************************************************************)
EstimatedForNoHorizon == tco.status # "none" /\ years < 1

C20_LifetimeBelowOneRejected ==
    EstimatedForNoHorizon =>
        /\ tco.status \notin {"ok", "ZeroDivisionError"}
        /\ asset = asset_in
        /\ calculation_history = 0

\* The example asset estimated for zero years: the components were computed
\* (the energy component stored its keys in the record) and the estimation
\* ended in ZeroDivisionError.
C20_Witness ==
    /\ EstimatedForNoHorizon
    /\ asset_in = ExampleAsset
    /\ years = 0
    /\ tco.status = "ZeroDivisionError"
    /\ asset # asset_in


(***************************************************************************)
(* C21  A price lookup consults the providers in the fixed order EPEX      *)
(* SPOT, Entso-E, aWATTar, skipping those that do not apply to the         *)
(* country of the location; it returns the result of the first provider    *)
(* that yields a price and consults no later provider in that call; the    *)
(* static fallback is used only after every applicable provider has been   *)
(* tried and yielded none.  A provider yields a price when its answer      *)
(* passes the test "if price:".                                            *)
(***************************************************************************)
Consulted == [i \in 1..Len(quote.calls) |-> quote.calls[i].provider]

QuoteCountry == Get(location_to_country, quote.location, "Default")

Yielded(i) == Truthy(quote.calls[i].price)

Usable(p) == p.kind = "num"

\* The step is a lookup, and every provider it consulted yielded nothing
\* usable
FailedAttempt ==
    /\ lookups' = lookups + 1
    /\ Len(quote'.calls) >= 1
    /\ \A i \in 1..Len(quote'.calls) : ~Usable(quote'.calls[i].price)

C22_FailedAttemptLeavesCache ==
    [][FailedAttempt => price_cache' = price_cache]_vars

\* EPEX answered a lookup for Berlin with a null price, and the cache holds
\* the null under the EPEX key of the hour: later lookups of the hour are
\* answered from it.
C22_Witness ==
    /\ quote.status = "ok"
    /\ quote.location = "Berlin"
    /\ quote.calls[1].price = None
    /\ <<"epex", "Germany", HourBucket(now)>> \in DOMAIN price_cache
    /\ price_cache[<<"epex", "Germany", HourBucket(now)>>].price = None
    /\ CacheHit(price_cache, <<"epex", "Germany", HourBucket(now)>>, now)


(***************************************************************************)
(* C23  predict() is read-only on a trained predictor: after any predict   *)
(* call, successful or failing and for any asset record (one that lacks    *)
(* some feature columns included), the model, feature_encoders, scaler,    *)
(* feature_names and training_stats are the same as before the call.       *)
(* Stated for every step of a predict() call.                              *)
(***************************************************************************)
PredictStep == PredictStart \/ PredictFeatures \/ PredictScale \/ PredictModel

C23_PredictIsReadOnly ==
    [][(predictor.model_trained /\ PredictStep) =>
          /\ predictor'.model = predictor.model
          /\ predictor'.feature_encoders = predictor.feature_encoders
          /\ predictor'.scaler = predictor.scaler
          /\ predictor'.feature_names = predictor.feature_names
          /\ predictor'.training_stats = predictor.training_stats]_vars

\* A predictor trained once, with no training under way, after a predict()
\* for a record that lacks a column: the call raised and feature_names no
\* longer names the columns the model was trained on.
C23_Witness ==
    /\ predictor.model_trained
    /\ train_run = [pc |-> "idle", pass |-> 1, i |-> 0]
    /\ predictor.model = [pass |-> 1, fitted |-> TRUE]
    /\ ml_event = Event("predict", "ValueError")
    /\ predictor.feature_names # Columns
    /\ predictor.feature_names \in PredictRecords


(***************************************************************************)
(* C24  No cost component function and no TCO estimation modifies the      *)
(* asset record passed in: after the call the caller's record has exactly  *)
(* the keys and values it had before, on the enhanced energy path with an  *)
(* energy agent as well.                                                   *)
(***************************************************************************)
C24_AssetRecordUntouched == tco.status # "none" => asset = asset_in

\* An estimation with the energy agent returned a result, and the caller's
\* record has the keys that add_realtime_energy_component stored in it.
C24_Witness ==
    /\ tco.status = "ok"
    /\ tco.agent
    /\ asset_in = ExampleAsset
    /\ "_annual_kwh" \notin DOMAIN asset_in
    /\ {"_energy_optimization", "_energy_price_realtime",
        "_energy_price_source", "_annual_kwh", "_last_energy_cost"}
          \subseteq DOMAIN asset


(***************************************************************************)
(* C25  The year-by-year cost series derived from a TCO result is          *)
(* consistent with its escalated totals: for every result and lifetime N   *)
(* the yearly operating costs of the years 1..N sum to the result's        *)
(* operating_costs, so the cumulative series ends at acquisition_costs +   *)
(* operating_costs, and year 1 carries the unescalated annual operating    *)
(* cost.  Sums are compared up to the rounding of the money unit.          *)
(***************************************************************************)
ChartTolerance(N) == 10 * N * (N + 1)

ChartedYears == Len(chart.annual_costs) - 1

C25_ChartConsistentWithTotals ==
    chart.shown =>
        /\ Abs(SumChartYears(tco.total_annual_operating, 1, ChartedYears)
                 - tco.operating_costs) <= ChartTolerance(ChartedYears)
        /\ Abs(chart.cumulative_costs[ChartedYears + 1]
                 - (tco.acquisition_costs + tco.operating_costs))
             <= ChartTolerance(ChartedYears)
        /\ ChartedYears >= 1 =>
             chart.annual_costs[2] = tco.total_annual_operating

\* The chart of the example asset over MaxYears years: year 1 is charted
\* above the annual operating cost and the cumulative series ends above
\* acquisition plus operating costs, by more than any rounding.
C25_Witness ==
    /\ chart.shown
    /\ asset_in = ExampleAsset
    /\ tco.lifetime_years = MaxYears
    /\ ChartedYears = MaxYears
    /\ chart.annual_costs[2] - tco.total_annual_operating
         > ChartTolerance(MaxYears)
    /\ chart.cumulative_costs[MaxYears + 1]
         - (tco.acquisition_costs + tco.operating_costs)
         > ChartTolerance(MaxYears)


(***************************************************************************)
(* C26  The insurance component applies the regional insurance factor of   *)
(* the asset's location (Deutschland 1.0, Daenemark 0.95, Italien 1.1,     *)
(* China 1.3, USA 1.2, Brasilien 1.4): two assets that differ only in      *)
(* location, placed in countries with different factors ('Duesseldorf      *)
(* (HQ)' and 'Shanghai'), get different insurance annual costs.  Stated    *)
(* for a positive purchase price.                                          *)
(***************************************************************************)
\* The country of the two locations, as STANDORTE[..]['land'] names it
LandOf(location) == IF location = "Shanghai" THEN "China" ELSE "Deutschland"

ElsewhereInsured(location) ==
    add_insurance_component([asset_in EXCEPT !.location = location])

InsuredHereAndThere ==
    /\ tco.status = "ok"
    /\ Get(asset_in, "purchase_price", 100000) > 0
    /\ asset_in.location \in {"Duesseldorf (HQ)", "Shanghai"}

C26_InsuranceUsesRegionalFactor ==
    InsuredHereAndThere =>
        /\ tco.components.insurance.factors.regional_factor
             = InsuranceRegions[LandOf(asset_in.location)]
        /\ \A l \in {"Duesseldorf (HQ)", "Shanghai"} \ {asset_in.location} :
             ElsewhereInsured(l).annual_cost
                # tco.components.insurance.annual_cost

\* The example asset placed in Shanghai: insured with the factor 1.0 and at
\* the annual cost it has in Duesseldorf.
C26_Witness ==
    /\ InsuredHereAndThere
    /\ asset_in = [ExampleAsset EXCEPT !.location = "Shanghai"]
    /\ tco.components.insurance.factors.regional_factor = 1000
    /\ InsuranceRegions["China"] = 1300
    /\ tco.components.insurance.annual_cost
         = ElsewhereInsured("Duesseldorf (HQ)").annual_cost
    /\ tco.components.insurance.annual_cost > 0


(***************************************************************************)
(* app.py and pages/: the wizard that adds an asset in four steps. One     *)
(* action is one run of the script: the widgets of the page shown hand     *)
(* back their values (the ones the user left, or the ones just entered),   *)
(* the button pressed is handled, and after st.rerun() the page now shown  *)
(* is drawn, which stores the values of its own widgets. A field changed   *)
(* is a run of its own, as the browser reports the change before a press;  *)
(* only the press of "next" is also followed with a change in the same     *)
(* run, as its guard reads the values of that run. Of the step-2           *)
(* form the three validated fields are followed; its other ten fields are  *)
(* stored the same way and are read by no guard of the wizard.             *)
(***************************************************************************)
wizardEtc == <<agentVars, calcVars, escVars, simpleVars, mlVars, concVars,
               rtVars, pageVars>>

\* the dict without one key (del d[k]) and filtered to some keys
Del(d, k) == [x \in (DOMAIN d) \ {k} |-> d[x]]
Keep(d, keys) == [x \in (DOMAIN d) \cap keys |-> d[x]]

\* bound: how many of the options of a select box the user picks from
MaxOptions == 2

\* get_core_industrial_categories(): the three kinds of equipment
Categories == {"Separator", "Homogenizer", "Pump"}

subcategories(category_key) ==
    CASE category_key = "Separator" ->
            <<"Disc Stack Separator", "Decanter", "Chamber Bowl", "Clarifier">>
      [] category_key = "Homogenizer" ->
            <<"Ariete", "Rannie", "Lab Homogenizer", "UHT Homogenizer">>
      [] category_key = "Pump" ->
            <<"Centrifugal Pump", "Positive Displacement", "Hilge HYGIA",
              "Varipump">>

typical_applications(category_key) ==
    CASE category_key = "Separator" ->
            <<"Juice Clarification", "Oil Separation", "Protein Recovery",
              "Water Treatment">>
      [] category_key = "Homogenizer" ->
            <<"Dairy Processing", "Pharmaceutical", "Cosmetics",
              "Food & Beverage">>
      [] category_key = "Pump" ->
            <<"CIP Systems", "Product Transfer", "Circulation", "Dosing">>

\* the options of a select box that the user picks from
Options(options) == {options[i] : i \in 1..Min(MaxOptions, Len(options))}

\* str.strip(): a name is a sequence of characters, " " is the blank
RECURSIVE lstrip(_)
lstrip(s) == IF s # <<>> /\ Head(s) = " " THEN lstrip(Tail(s)) ELSE s

RECURSIVE rstrip(_)
rstrip(s) ==
    IF s # <<>> /\ s[Len(s)] = " " THEN rstrip(SubSeq(s, 1, Len(s) - 1)) ELSE s

strip(s) == rstrip(lstrip(s))

\* date.today() and the earliest date of the form, as years
today == 2025
EarliestYear == 1990
\* the cap of the purchase price, in EUR
PriceCap == 10000000

\* validate_form_data without the test of the length of the name
validate_form_data_Mutant(data) ==
    LET name == Get(data, "asset_name", <<>>)
        price == Get(data, "purchase_price", 0)
    IN  (IF strip(name) = <<>> THEN <<"Asset-Name ist erforderlich">>
         ELSE <<>>)
        \o (IF price = 0 THEN <<"Anschaffungskosten sind erforderlich">>
            ELSE IF price <= 0
                 THEN <<"Anschaffungskosten muessen groesser als 0 sein">>
            ELSE IF price > PriceCap
                 THEN <<"Anschaffungskosten scheinen unrealistisch hoch">>
            ELSE <<>>)
        \o (IF "purchase_date" \notin DOMAIN data THEN <<>>
            ELSE IF data["purchase_date"] > today
                 THEN <<"Anschaffungsdatum kann nicht in der Zukunft liegen">>
            ELSE IF data["purchase_date"] < EarliestYear
                 THEN <<"Anschaffungsdatum scheint unrealistisch alt">>
            ELSE <<>>)

\* validate_form_data(data): the list of the errors of the form
validate_form_data(data) ==
    LET name == Get(data, "asset_name", <<>>)
        price == Get(data, "purchase_price", 0)
    IN  (IF strip(name) = <<>> THEN <<"Asset-Name ist erforderlich">>
         ELSE IF Len(strip(name)) < 3
              THEN <<"Asset-Name muss mindestens 3 Zeichen haben">>
         ELSE <<>>)
        \o (IF price = 0 THEN <<"Anschaffungskosten sind erforderlich">>
            ELSE IF price <= 0
                 THEN <<"Anschaffungskosten muessen groesser als 0 sein">>
            ELSE IF price > PriceCap
                 THEN <<"Anschaffungskosten scheinen unrealistisch hoch">>
            ELSE <<>>)
        \o (IF "purchase_date" \notin DOMAIN data THEN <<>>
            ELSE IF data["purchase_date"] > today
                 THEN <<"Anschaffungsdatum kann nicht in der Zukunft liegen">>
            ELSE IF data["purchase_date"] < EarliestYear
                 THEN <<"Anschaffungsdatum scheint unrealistisch alt">>
            ELSE <<>>)

\* what the user types as a name: nothing, blanks only, two letters, two
\* letters padded with blanks, two letters around a blank, three letters
Names ==
    {<<>>, <<" ", " ", " ">>, <<"a", "b">>, <<" ", "a", "b", " ">>,
     <<"a", " ", "b">>, <<"G", "E", "A">>}

\* what the number input hands back: it keeps the price within 0..PriceCap
Prices == {0, 2500000, PriceCap}

\* what the date input hands back: it keeps the date within 1990..today
Dates == {EarliestYear, today}

\* the values of the three widgets after the user changed one of them
Edited(form) ==
    {[form EXCEPT !.asset_name = asset_name] : asset_name \in Names}
        \cup {[form EXCEPT !.purchase_price = price] : price \in Prices}
        \cup {[form EXCEPT !.purchase_date = purchase_date] :
                    purchase_date \in Dates}

\* the values the widgets hand back when the user has not touched them:
\* each widget is created with the stored value, or its default, as value
FormOf(d) ==
    [asset_name |-> Get(d, "asset_name", <<>>),
     purchase_price |-> Get(d, "purchase_price", 0),
     purchase_date |-> Get(d, "purchase_date", today)]

\* step2.show() down to the buttons: without a category it returns at once,
\* else every widget stores its value
WriteForm(d, form) ==
    IF "category" \notin DOMAIN d THEN d
    ELSE Put(Put(Put(d, "asset_name", form.asset_name),
                 "purchase_price", form.purchase_price),
             "purchase_date", form.purchase_date)

\* step1.show() below the category buttons: with a category chosen the two
\* select boxes store their values
WriteSelection(d, variant, application) ==
    IF "subcategory" \notin DOMAIN d THEN d
    ELSE Put(Put(d, "equipment_variant", variant), "application", application)

\* step 1 drawn after another page: its select boxes were not on that page,
\* their state is gone and each hands back its first option
EnterStep1(d) ==
    IF "subcategory" \notin DOMAIN d THEN d
    ELSE WriteSelection(d, subcategories(d["subcategory"])[1],
                        typical_applications(d["subcategory"])[1])

\* step3.show() down to the buttons: without a name it returns at once, else
\* the prediction is made anew and stored; the ML path stores two more keys
Predictions == {"ml", "rule"}

WritePrediction(d, prediction) ==
    IF Get(d, "asset_name", <<>>) = <<>> THEN d
    ELSE IF prediction = "ml"
         THEN Put(Put(Put(d, "ai_prediction", prediction),
                      "similar_assets", "similar"), "ml_used", TRUE)
    ELSE Put(d, "ai_prediction", prediction)

\* app.py 331-333: the dashboard button of the sidebar, on every page
SidebarDashboard ==
    /\ page' = "dashboard"
    /\ UNCHANGED <<session_asset_data, wizardEtc>>

\* app.py 374-379: the cancel button of the sidebar, on every page but the
\* dashboard
Cancel ==
    /\ page # "dashboard"
    /\ page' = "dashboard"
    /\ session_asset_data' = <<>>
    /\ UNCHANGED wizardEtc

\* dashboard.py 208-211: "add a new asset"
NewAsset ==
    /\ page = "dashboard"
    /\ page' = "step1"
    /\ session_asset_data' = <<>>
    /\ UNCHANGED wizardEtc

\* step1.py 54-59: one of the three category buttons; the select boxes keep
\* their values when their options are the same, else hand back the first
SelectCategory ==
    /\ page = "step1"
    /\ \E category_key \in Categories :
        \E d \in {Put(Put(Put(Put(session_asset_data,
                                  "category", "Industrial"),
                              "subcategory", category_key),
                          "equipment_variants", subcategories(category_key)),
                      "typical_applications",
                      typical_applications(category_key))} :
            session_asset_data' =
                IF Get(session_asset_data, "subcategory", "") = category_key
                THEN WriteSelection(d,
                                    session_asset_data["equipment_variant"],
                                    session_asset_data["application"])
                ELSE EnterStep1(d)
    /\ UNCHANGED <<page, wizardEtc>>

\* step1.py 74-92: the user picks a variant and an application
ChooseVariant ==
    /\ page = "step1"
    /\ "subcategory" \in DOMAIN session_asset_data
    /\ \E variant \in Options(subcategories(session_asset_data["subcategory"])),
          application \in
            Options(typical_applications(session_asset_data["subcategory"])) :
        session_asset_data' =
            WriteSelection(session_asset_data, variant, application)
    /\ UNCHANGED <<page, wizardEtc>>

\* step1.py 116-118: back to the dashboard
Step1Back ==
    /\ page = "step1"
    /\ page' = "dashboard"
    /\ UNCHANGED <<session_asset_data, wizardEtc>>

\* step1.py 131-135: the button is there only with the equipment configured;
\* then step 2 is drawn
Step1Next ==
    /\ page = "step1"
    /\ "subcategory" \in DOMAIN session_asset_data
    /\ "equipment_variant" \in DOMAIN session_asset_data
    /\ page' = "step2"
    /\ session_asset_data' =
           WriteForm(session_asset_data, FormOf(session_asset_data))
    /\ UNCHANGED wizardEtc

\* step2.py 94-157: the user changes a field of the form, which runs the
\* script with no button pressed
EditForm ==
    /\ page = "step2"
    /\ "category" \in DOMAIN session_asset_data
    /\ \E form \in Edited(FormOf(session_asset_data)) :
        session_asset_data' = WriteForm(session_asset_data, form)
    /\ UNCHANGED <<page, wizardEtc>>

\* step2.py 270-272: back to step 1, which is then drawn
Step2Back ==
    /\ page = "step2"
    /\ "category" \in DOMAIN session_asset_data
    /\ \E form \in {FormOf(session_asset_data)} :
        session_asset_data' = EnterStep1(WriteForm(session_asset_data, form))
    /\ page' = "step1"
    /\ UNCHANGED wizardEtc

\* step2.py 276-281: the reset of the form; step 2 is then drawn with the
\* defaults of its widgets
keys_to_keep == {"category", "subcategory", "subcategories"}

Step2Reset ==
    /\ page = "step2"
    /\ "category" \in DOMAIN session_asset_data
    /\ \E form \in {FormOf(session_asset_data)} :
        \E filtered_data \in
                {Keep(WriteForm(session_asset_data, form), keys_to_keep)} :
            session_asset_data' =
                WriteForm(filtered_data, FormOf(filtered_data))
    /\ UNCHANGED <<page, wizardEtc>>

\* step2.py 284-288: the button pressed is the one drawn by the run before,
\* which drew it enabled only without errors; the press may come with a
\* field changed, and this run handles it only if its own values have no
\* errors either; then step 3 is drawn
Step2Next ==
    /\ page = "step2"
    /\ "category" \in DOMAIN session_asset_data
    /\ validate_form_data(FormOf(session_asset_data)) = <<>>
    /\ \E form \in Edited(FormOf(session_asset_data)),
          prediction \in Predictions :
        IF validate_form_data(form) = <<>>
        THEN /\ page' = "step3"
             /\ session_asset_data' =
                    WritePrediction(WriteForm(session_asset_data, form),
                                    prediction)
        ELSE /\ page' = page
             /\ session_asset_data' = WriteForm(session_asset_data, form)
    /\ UNCHANGED wizardEtc

\* step3.py 419-421: back to step 2, which is then drawn
Step3Back ==
    /\ page = "step3"
    /\ Get(session_asset_data, "asset_name", <<>>) # <<>>
    /\ page' = "step2"
    /\ \E prediction \in Predictions :
        \E d \in {WritePrediction(session_asset_data, prediction)} :
            session_asset_data' = WriteForm(d, FormOf(d))
    /\ UNCHANGED wizardEtc

\* step3.py 426-430: the prediction is dropped and made anew by the rerun
Step3Regenerate ==
    /\ page = "step3"
    /\ Get(session_asset_data, "asset_name", <<>>) # <<>>
    /\ \E prediction \in Predictions :
        session_asset_data' =
            WritePrediction(Del(session_asset_data, "ai_prediction"),
                            prediction)
    /\ UNCHANGED <<page, wizardEtc>>

\* step3.py 402-403: the user overrides the predicted cost
ManualOverride ==
    /\ page = "step3"
    /\ Get(session_asset_data, "asset_name", <<>>) # <<>>
    /\ \E prediction \in Predictions :
        session_asset_data' =
            Put(Put(WritePrediction(session_asset_data, prediction),
                    "manual_override", "manual_cost"),
                "manual_reason", "manual_reason")
    /\ UNCHANGED <<page, wizardEtc>>

\* step3.py 433-435: on to step 4, which stores nothing in the session
Step3Next ==
    /\ page = "step3"
    /\ Get(session_asset_data, "asset_name", <<>>) # <<>>
    /\ page' = "step4"
    /\ \E prediction \in Predictions :
        session_asset_data' = WritePrediction(session_asset_data, prediction)
    /\ UNCHANGED wizardEtc

\* step4.py 494-496: back to step 3, which is then drawn
Step4Back ==
    /\ page = "step4"
    /\ Get(session_asset_data, "asset_name", <<>>) # <<>>
    /\ page' = "step3"
    /\ \E prediction \in Predictions :
        session_asset_data' = WritePrediction(session_asset_data, prediction)
    /\ UNCHANGED wizardEtc

\* step4.py 499-502: another asset
Step4New ==
    /\ page = "step4"
    /\ Get(session_asset_data, "asset_name", <<>>) # <<>>
    /\ page' = "step1"
    /\ session_asset_data' = <<>>
    /\ UNCHANGED wizardEtc

\* step4.py 505-511: the asset is saved, back to the dashboard
Step4Home ==
    /\ page = "step4"
    /\ Get(session_asset_data, "asset_name", <<>>) # <<>>
    /\ page' = "dashboard"
    /\ UNCHANGED <<session_asset_data, wizardEtc>>

NextWizard ==
    \/ SidebarDashboard \/ Cancel \/ NewAsset
    \/ SelectCategory \/ ChooseVariant \/ Step1Back \/ Step1Next
    \/ EditForm \/ Step2Back \/ Step2Reset \/ Step2Next
    \/ Step3Back \/ Step3Regenerate \/ ManualOverride \/ Step3Next
    \/ Step4Back \/ Step4New \/ Step4Home

SpecWizard == Init /\ [][NextWizard]_vars

(***************************************************************************)
(* C27  In every reachable state of the wizard, whatever buttons were      *)
(* pressed, whenever the page is step3 or step4 the asset data of the      *)
(* session holds an asset name of at least 3 characters once the blanks    *)
(* around it are stripped and a purchase price with 0 < price <=           *)
(* 10,000,000; and step3 is entered only from step2 by a run whose form    *)
(* has no validation errors, or from step4.                                *)
(***************************************************************************)
NameAndPriceValidated ==
    /\ "asset_name" \in DOMAIN session_asset_data
    /\ "purchase_price" \in DOMAIN session_asset_data
    /\ Len(strip(session_asset_data["asset_name"])) >= 3
    /\ session_asset_data["purchase_price"] > 0
    /\ session_asset_data["purchase_price"] <= 10000000

EntersStep3 == page # "step3" /\ page' = "step3"

ChosenInStep1 == {"category", "subcategory", "equipment_variant", "application"}

C28_ResetKeepsStep1Data ==
    page \in {"step2", "step3", "step4"} =>
        ChosenInStep1 \subseteq DOMAIN session_asset_data

\* After a reset the wizard went on to step 3 with the category and the
\* subcategory, but with neither the equipment variant nor the application
C28_Witness ==
    /\ page = "step3"
    /\ {"category", "subcategory"} \subseteq DOMAIN session_asset_data
    /\ "equipment_variant" \notin DOMAIN session_asset_data
    /\ "application" \notin DOMAIN session_asset_data


(***************************************************************************)
(* C29  Within one hour bucket the quote for a country is stable: once     *)
(* get_current_electricity_price has returned a live price from some       *)
(* provider for a country, a later call for that country in the same hour  *)
(* bucket returns the same price from the same provider, whatever the      *)
(* other providers answer in between.                                      *)
(***************************************************************************)
LiveQuote == quote.status = "ok" /\ quote.is_realtime

\* the provider whose price a live quote carries: the last one called
QuoteProvider == quote.calls[Len(quote.calls)].provider

\* The live quote in quote was returned in the hour bucket of now: the call
\* that yielded it stored its price, or found it, under the key of the
\* provider, the country and the hour bucket of the lookup.
QuotedThisHour ==
    /\ LiveQuote
    /\ <<QuoteProvider, QuoteCountry, HourBucket(now)>> \in DOMAIN price_cache

C29_QuoteStableWithinHour ==
    [][(QuotedThisHour /\ lookups' = lookups + 1
            /\ QuoteCountry' = QuoteCountry)
        => /\ LiveQuote'
           /\ quote'.price = quote.price
           /\ QuoteProvider' = QuoteProvider]_vars

\* The second lookup for Germany within the hour is answered live by EPEX,
\* the first one was answered by Entso-E with another price: the price that
\* Entso-E stored in this hour is in the cache, and none was there for EPEX
\* when the second lookup began.
C29_Witness ==
    /\ lookups = 2
    /\ LiveQuote
    /\ QuoteCountry = "Germany"
    /\ quote.source = "EPEX SPOT (Live)"
    /\ <<"entsoe", "Germany", HourBucket(now)>> \in DOMAIN price_cache
    /\ Div1000(price_cache[<<"entsoe", "Germany", HourBucket(now)>>].price.v)
         # quote.price


(***************************************************************************)
(* C30  In calculate_simple_tco, for weekly hours h and a lifetime of N    *)
(* years, the number of services is max(1, floor(h*52*N / 8000),           *)
(* floor(N / 2)), the cost of one service is 10000 for DMR < 400, 15000    *)
(* for 400 <= DMR <= 700 and 20000 above, the total service cost is their  *)
(* product, and the annual service cost is that total spread over the N    *)
(* years (to the full EUR in which the costs are carried here).            *)
(***************************************************************************)
\* \div is the floor of the quotient
ServicesDue(h, N) == Max(1, Max((h * 52 * N) \div 8000, N \div 2))

CostOfOneService(dmr) ==
    CASE dmr < 400 -> 10000
      [] dmr >= 400 /\ dmr <= 700 -> 15000
      [] dmr > 700 -> 20000

TotalServiceCost ==
    simple_tco.service_cost_per_service * simple_tco.service_zyklen_gesamt

C30_ServiceCyclesAndCost ==
    simple_tco.status = "ok" =>
        /\ simple_tco.service_zyklen_gesamt
             = ServicesDue(simple_call.betriebsstunden_woche,
                           simple_call.nutzungsdauer_jahre)
        /\ simple_tco.service_cost_per_service
             = CostOfOneService(simple_tco.dmr)
        /\ Abs(simple_tco.annual_service_cost
                 * simple_call.nutzungsdauer_jahre - TotalServiceCost)
             < Abs(simple_call.nutzungsdauer_jahre)

\* Seven services by time over 15 years of 40 hour weeks (three by hours),
\* at 20000 each for a DMR of 800: 140000 in total, 9333 a year
C30_Witness ==
    /\ simple_tco.status = "ok"
    /\ simple_call.betriebsstunden_woche = 40
    /\ simple_call.nutzungsdauer_jahre = 15
    /\ simple_tco.dmr = 800
    /\ simple_tco.service_zyklen_gesamt = 7
    /\ simple_tco.service_cost_per_service = 20000
    /\ simple_tco.annual_service_cost = 9333


====
